---------------------------- MODULE Spec2Model ----------------------------
(***************************************************************************)
(* Model of the next-train-server transit proxy: the bus and rail          *)
(* prediction adapters, the stop consolidator of the stops endpoint, the   *)
(* direction resolver of the stop-directions endpoint, the predictions     *)
(* endpoint (also in its variant with the edge cache), the routes endpoint *)
(* with its day-long cache, the route-stops endpoint, the background cache *)
(* writes, and the admin endpoints with the full-catalog sync.             *)
(*                                                                         *)
(* Text that the code inspects character by character (timestamps, the     *)
(* rail "minutes", "direction" and "color" fields, stop ids) is a sequence *)
(* of one-character strings; text that is only copied or compared as a     *)
(* whole (names, messages) is a TLA+ string.                               *)
(*                                                                         *)
(* A JavaScript number that may be NaN is <<n>>, or NaN == <<>>.  An       *)
(* instant (the time value of a Date) is <<m, r>>, standing for            *)
(* m * 60000 + r milliseconds since the epoch with 0 <= r < 60000; the     *)
(* time value of an invalid Date is NaN.                                   *)
(***************************************************************************)
EXTENDS Integers, Sequences, FiniteSets, TLC

VARIABLES
    busCall,      \* the arguments and environment of the last bus adapter call
    busResult,    \* what that call returned or threw
    railCall,     \* the arguments and environment of the last rail adapter call
    railResult,   \* what that call returned or threw
    stopsCall,    \* the last request to the stops endpoint and its upstream answer
    stopsResponse,\* the response of that request
    dirCall,      \* the last request to the stop-directions endpoint
    dirResponse,  \* the response of that request
    db,           \* the D1 metadata database
    cacheTasks,   \* the cache writes handed to executionCtx.waitUntil
    predCall,     \* the last request to the predictions endpoint
    predResponse, \* the response of that request
    routesCall,   \* the last request to the routes endpoint
    routesResponse, \* the response of that request
    predCache,    \* the entry of the request's URL in the Cache API store
    adminCall,    \* the last request to an admin endpoint, with the statement
                  \* its handler awaits next and the locals of the run
    adminResponse, \* the response of that request
    peerCall,     \* a second request to the same endpoint, running concurrently
    peerResponse, \* the response of that request
    routeStopsCall,    \* the last request to the route-stops endpoint
    routeStopsResponse \* the response of that request

vars == <<busCall, busResult, railCall, railResult,
          stopsCall, stopsResponse, dirCall, dirResponse, db, cacheTasks,
          predCall, predResponse, routesCall, routesResponse,
          predCache, adminCall, adminResponse, peerCall, peerResponse,
          routeStopsCall, routeStopsResponse>>

(***************************************************************************)
(* JavaScript values                                                       *)
(***************************************************************************)
NaN == <<>>
Idle == [kind |-> "idle"]

Digits == {"0", "1", "2", "3", "4", "5", "6", "7", "8", "9"}

DigitVal ==
    ("0" :> 0) @@ ("1" :> 1) @@ ("2" :> 2) @@ ("3" :> 3) @@ ("4" :> 4) @@
    ("5" :> 5) @@ ("6" :> 6) @@ ("7" :> 7) @@ ("8" :> 8) @@ ("9" :> 9)

WhiteSpace == {" "}

Max(a, b) == IF a >= b THEN a ELSE b

Min(a, b) == IF a <= b THEN a ELSE b

\* String.prototype.substring(start, end) on a character sequence
\* (0-based, end exclusive, both clamped to the length).
Substring(s, start, end) ==
    LET a == Min(Max(start, 0), Len(s))
        b == Min(Max(end, 0), Len(s))
    IN  SubSeq(s, Min(a, b) + 1, Max(a, b))

\* String.prototype.substring(start)
SubstringFrom(s, start) == Substring(s, start, Len(s))

\* Number of leading characters of s that lie in the set cs.
RECURSIVE LeadingIn(_, _)
LeadingIn(s, cs) ==
    IF s = <<>> \/ Head(s) \notin cs THEN 0 ELSE 1 + LeadingIn(Tail(s), cs)

RECURSIVE DigitsValue(_, _)
DigitsValue(s, acc) ==
    IF s = <<>> THEN acc ELSE DigitsValue(Tail(s), 10 * acc + DigitVal[Head(s)])

\* parseInt(s): skip leading white space, read an optional sign, then the
\* longest run of decimal digits; NaN when there is no digit.
ParseInt(s) ==
    LET t    == SubstringFrom(s, LeadingIn(s, WhiteSpace))
        neg  == t # <<>> /\ Head(t) = "-"
        u    == IF t # <<>> /\ Head(t) \in {"-", "+"} THEN Tail(t) ELSE t
        n    == LeadingIn(u, Digits)
    IN  IF n = 0 THEN NaN
        ELSE IF neg THEN <<0 - DigitsValue(SubSeq(u, 1, n), 0)>>
        ELSE <<DigitsValue(SubSeq(u, 1, n), 0)>>

\* Index (1-based) of the first occurrence of character c in s, 0 if none.
RECURSIVE IndexOf(_, _)
IndexOf(s, c) ==
    IF s = <<>> THEN 0
    ELSE IF Head(s) = c THEN 1
    ELSE LET r == IndexOf(Tail(s), c) IN IF r = 0 THEN 0 ELSE r + 1

\* String.prototype.split(c): the pieces between the occurrences of c.
RECURSIVE Split(_, _)
Split(s, c) ==
    LET i == IndexOf(s, c)
    IN  IF i = 0 THEN <<s>>
        ELSE <<SubSeq(s, 1, i - 1)>> \o Split(SubSeq(s, i + 1, Len(s)), c)

RECURSIVE TrimLeft(_)
TrimLeft(s) ==
    IF s # <<>> /\ Head(s) \in WhiteSpace THEN TrimLeft(Tail(s)) ELSE s

RECURSIVE TrimRight(_)
TrimRight(s) ==
    IF s # <<>> /\ s[Len(s)] \in WhiteSpace
    THEN TrimRight(SubSeq(s, 1, Len(s) - 1)) ELSE s

\* String.prototype.trim()
Trim(s) == TrimRight(TrimLeft(s))

(***************************************************************************)
(* Dates                                                                   *)
(***************************************************************************)
MsPerMinute == 60000
MinutesPerDay == 1440

\* Days from 1970-01-01 to the first day of month m (0-based, any integer)
\* of year y in the proleptic Gregorian calendar: MakeDay of ECMA-262.
MakeDay(year, month, date) ==
    LET ym  == year + (month \div 12)
        mn  == (month % 12) + 1
        y   == IF mn <= 2 THEN ym - 1 ELSE ym
        era == y \div 400
        yoe == y - era * 400
        mp  == IF mn > 2 THEN mn - 3 ELSE mn + 9
        doy == (153 * mp + 2) \div 5
        doe == yoe * 365 + (yoe \div 4) - (yoe \div 100) + doy
    IN  era * 146097 + doe - 719468 + (date - 1)

\* new Date(year, month, day, hours, minutes) in an environment whose local
\* time is tzOffset minutes ahead of UTC.  The arguments are numbers that
\* may be NaN; any NaN gives an invalid Date; years 0..99 mean 1900..1999.
NewDateLocal(year, month, day, hours, minutes, tzOffset) ==
    IF NaN \in {year, month, day, hours, minutes}
    THEN NaN
    ELSE LET yr == IF year[1] >= 0 /\ year[1] <= 99
                   THEN 1900 + year[1] ELSE year[1]
         IN  <<MakeDay(yr, month[1], day[1]) * MinutesPerDay
                 + hours[1] * 60 + minutes[1] - tzOffset,
               0>>

\* new Date(d.getTime() + minutes * 60000); minutes may be NaN.
AddMinutes(d, minutes) ==
    IF d = NaN \/ minutes = NaN THEN NaN
    ELSE <<d[1] + minutes[1], d[2]>>

\* a.getTime() <= b.getTime()
InstantLeq(a, b) == a[1] < b[1] \/ (a[1] = b[1] /\ a[2] <= b[2])

\* a.getTime() < b.getTime()
InstantLess(a, b) == a[1] < b[1] \/ (a[1] = b[1] /\ a[2] < b[2])

\* Math.round((a.getTime() - b.getTime()) / 60000): the quotient rounded to
\* the nearest integer, halves towards +infinity.
RoundedMinutesBetween(a, b) ==
    (a[1] - b[1]) + ((2 * (a[2] - b[2]) + MsPerMinute) \div (2 * MsPerMinute))

\* Date.prototype.toISOString(): the UTC calendar fields of the instant, to
\* the millisecond.  It throws a RangeError for an invalid Date, which the
\* callers below check before they format.
ToISOString(d) ==
    LET days == d[1] \div MinutesPerDay
        mod  == d[1] % MinutesPerDay
        z    == days + 719468
        era  == z \div 146097
        doe  == z - era * 146097
        yoe  == (doe - (doe \div 1460) + (doe \div 36524) - (doe \div 146096)) \div 365
        doy  == doe - (365 * yoe + (yoe \div 4) - (yoe \div 100))
        mp   == (5 * doy + 2) \div 153
        dd   == doy - ((153 * mp + 2) \div 5) + 1
        mm   == IF mp < 10 THEN mp + 3 ELSE mp - 9
        yy   == yoe + era * 400 + (IF mm <= 2 THEN 1 ELSE 0)
    IN  [year |-> yy, month |-> mm, day |-> dd,
         hour |-> mod \div 60, minute |-> mod % 60,
         second |-> d[2] \div 1000, milli |-> d[2] % 1000]

\* new Date(isoString).getTime() for a string produced by toISOString.
ParseISO(iso) ==
    <<MakeDay(iso.year, iso.month - 1, iso.day) * MinutesPerDay
        + iso.hour * 60 + iso.minute,
      iso.second * 1000 + iso.milli>>


(***************************************************************************)
(* Bus adapter: AcTransitClient                                            *)
(***************************************************************************)
MaxPrd == 2   \* most predictions in one upstream envelope
MaxErr == 2   \* most error entries in one upstream envelope

\* Timestamps the upstream may send in prdtm: "20240615 18:32",
\* "20240310 01:00", one without the colon, an ISO-like one and the empty one.
PrdtmSamples ==
    { <<"2", "0", "2", "4", "0", "6", "1", "5", " ", "1", "8", ":", "3", "2">>,
      <<"2", "0", "2", "4", "0", "3", "1", "0", " ", "0", "1", ":", "0", "0">>,
      <<"2", "0", "2", "4", "0", "6", "1", "5", " ", "1", "8", "3", "2">>,
      <<"2", "0", "2", "4", "-", "0", "6", "-", "1", "5", "T", "1", "8", ":", "3", "2">>,
      <<>> }

RtdirSamples == {"To San Francisco", "To Eastmont Transit Center"}

ErrorMsgSamples == {"No service scheduled", "No data found for parameter"}

AcTransitPredictionSet ==
    [stpnm : {"Uptown Transit Center"}, stpid : {"55558"}, vid : {"6104"},
     rt : {"NL"}, rtdir : RtdirSamples, prdtm : PrdtmSamples]

SeqsUpTo(S, n) == UNION {[1..k -> S] : k \in 0..n}

\* A body that passes AcTransitAPIResponse.parse: the "bustime-response"
\* object with its optional prd and error arrays (hasPrd / hasError tell
\* whether the key is present).
AcTransitEnvelopeSet ==
    { e \in [hasPrd : BOOLEAN, prd : SeqsUpTo(AcTransitPredictionSet, MaxPrd),
             hasError : BOOLEAN, error : SeqsUpTo([msg : ErrorMsgSamples], MaxErr)] :
        /\ (~e.hasPrd => e.prd = <<>>)
        /\ (~e.hasError => e.error = <<>>) }

NoEnvelope == [hasPrd |-> FALSE, prd |-> <<>>, hasError |-> FALSE, error |-> <<>>]

\* What fetch and response.json() give the adapter: a rejected fetch, a
\* response with its status, and a body that does or does not fit the schema.
BusResponseSet ==
    [kind : {"network-error"}, status : {0}, statusText : {""}, body : {NoEnvelope}]
    \cup [kind : {"http"}, status : {404, 500}, statusText : {"Error"}, body : {NoEnvelope}]
    \cup [kind : {"bad-schema"}, status : {200}, statusText : {"OK"}, body : {NoEnvelope}]
    \cup [kind : {"http"}, status : {200}, statusText : {"OK"}, body : AcTransitEnvelopeSet]

ResponseOk(r) == r.status >= 200 /\ r.status <= 299

StatusString == (200 :> "200") @@ (404 :> "404") @@ (500 :> "500") @@ (503 :> "503")

\* Date.now() when the adapter runs: minutes relative to 2024-06-15T18:32Z
\* and milliseconds within the minute.
NowMinuteOffsets == {-2, 700}
NowMillis == {0, 30000, 30001}
ReferenceMinute == MakeDay(2024, 5, 15) * MinutesPerDay + 18 * 60 + 32
NowSamples == {<<ReferenceMinute + m, r>> : m \in NowMinuteOffsets, r \in NowMillis}

\* Offset of the executing environment's local time from UTC, in minutes.
EnvOffsets == {0, -420}

\* What an adapter call gave; fetched records whether it reached its fetch.
Returned(v) == [threw |-> FALSE, message |-> "", value |-> v, fetched |-> TRUE]
Thrown(m) == [threw |-> TRUE, message |-> m, value |-> <<>>, fetched |-> TRUE]
ThrownBeforeFetch(m) == [threw |-> TRUE, message |-> m, value |-> <<>>, fetched |-> FALSE]

\* AcTransitClient.parseAcTransitDateTime: fixed offsets, parseInt, and a
\* Date built in the environment's local time.  A time without ":" leaves
\* minutes undefined, which the Date constructor turns into NaN.
parseAcTransitDateTime(dateTimeStr, tzOffset) ==
    LET year   == ParseInt(Substring(dateTimeStr, 0, 4))
        mon    == ParseInt(Substring(dateTimeStr, 4, 6))
        month  == IF mon = NaN THEN NaN ELSE <<mon[1] - 1>>
        day    == ParseInt(Substring(dateTimeStr, 6, 8))
        time   == SubstringFrom(dateTimeStr, 9)
        pieces == Split(time, ":")
        hours  == ParseInt(pieces[1])
        minutes == IF Len(pieces) >= 2 THEN ParseInt(pieces[2]) ELSE NaN
    IN  NewDateLocal(year, month, day, hours, minutes, tzOffset)

\* The body of predictions.map(...) for one upstream prediction; called
\* only when prdtm parses to a valid Date.
AcTransitConvert(pred, now, tzOffset) ==
    LET prdtm == parseAcTransitDateTime(pred.prdtm, tzOffset)
        departureTime == AddMinutes(prdtm, <<-1>>)
        minutesUntilArrival == RoundedMinutesBetween(prdtm, now)
    IN  [arrivalTime |-> ToISOString(prdtm),
         departureTime |-> ToISOString(departureTime),
         stopName |-> pred.stpnm,
         stopId |-> pred.stpid,
         route |-> pred.rt,
         direction |-> pred.rtdir,
         vehicleId |-> pred.vid,
         minutesUntilArrival |-> Max(0, minutesUntilArrival)]

\* AcTransitGetPredictions with the error check demoted: the error array is
\* looked at only when the envelope carries no prediction.
AcTransitGetPredictions_DataFirst(stopId, route, resp, now, tzOffset) ==
    IF route # "NL" THEN ThrownBeforeFetch("Only NL route is currently supported")
    ELSE IF resp.kind = "network-error" THEN Thrown("fetch failed")
    ELSE IF ~ResponseOk(resp)
    THEN Thrown("AC Transit API error: " \o StatusString[resp.status]
                    \o " " \o resp.statusText)
    ELSE IF resp.kind = "bad-schema" THEN Thrown("ZodError")
    ELSE IF resp.body.hasError /\ Len(resp.body.error) > 0 /\ resp.body.prd = <<>>
    THEN Thrown("AC Transit API error: " \o resp.body.error[1].msg)
    ELSE LET predictions == resp.body.prd
         IN  IF \E i \in 1..Len(predictions) :
                   parseAcTransitDateTime(predictions[i].prdtm, tzOffset) = NaN
             THEN Thrown("Invalid time value")
             ELSE Returned([i \in 1..Len(predictions) |->
                              AcTransitConvert(predictions[i], now, tzOffset)])

\* The adapter with the route check moved behind the fetch.
AcTransitGetPredictions_FetchFirst(stopId, route, resp, now, tzOffset) ==
    IF resp.kind = "network-error" THEN Thrown("fetch failed")
    ELSE IF ~ResponseOk(resp)
    THEN Thrown("AC Transit API error: " \o StatusString[resp.status]
                    \o " " \o resp.statusText)
    ELSE IF route # "NL" THEN Thrown("Only NL route is currently supported")
    ELSE IF resp.kind = "bad-schema" THEN Thrown("ZodError")
    ELSE IF resp.body.hasError /\ Len(resp.body.error) > 0
    THEN Thrown("AC Transit API error: " \o resp.body.error[1].msg)
    ELSE LET predictions == resp.body.prd
         IN  IF \E i \in 1..Len(predictions) :
                   parseAcTransitDateTime(predictions[i].prdtm, tzOffset) = NaN
             THEN Thrown("Invalid time value")
             ELSE Returned([i \in 1..Len(predictions) |->
                              AcTransitConvert(predictions[i], now, tzOffset)])

\* AcTransitClient.getPredictions(stopId, route) against the upstream
\* answer resp, at time now.
AcTransitGetPredictions(stopId, route, resp, now, tzOffset) ==
    IF route # "NL" THEN ThrownBeforeFetch("Only NL route is currently supported")
    ELSE IF resp.kind = "network-error" THEN Thrown("fetch failed")
    ELSE IF ~ResponseOk(resp)
    THEN Thrown("AC Transit API error: " \o StatusString[resp.status]
                    \o " " \o resp.statusText)
    ELSE IF resp.kind = "bad-schema" THEN Thrown("ZodError")
    ELSE IF resp.body.hasError /\ Len(resp.body.error) > 0
    THEN Thrown("AC Transit API error: " \o resp.body.error[1].msg)
    ELSE LET predictions == resp.body.prd
         IN  IF \E i \in 1..Len(predictions) :
                   parseAcTransitDateTime(predictions[i].prdtm, tzOffset) = NaN
             THEN Thrown("Invalid time value")
             ELSE Returned([i \in 1..Len(predictions) |->
                              AcTransitConvert(predictions[i], now, tzOffset)])

BusRoutes == {"NL", "51A"}

BusCallSet ==
    [stopId : {"55558"}, route : BusRoutes, response : BusResponseSet,
     now : NowSamples, tzOffset : EnvOffsets]

\* The adapter is about to be called with busCall: its arguments, the
\* answer the upstream will give and the clock and time zone it runs under.
BusInit ==
    /\ busCall \in BusCallSet
    /\ busResult = Idle
    /\ railCall = Idle /\ railResult = Idle
    /\ stopsCall = Idle /\ stopsResponse = Idle
    /\ dirCall = Idle /\ dirResponse = Idle
    /\ db = Idle /\ cacheTasks = <<>>
    /\ predCache = Idle
    /\ adminCall = Idle /\ adminResponse = Idle
    /\ peerCall = Idle /\ peerResponse = Idle
    /\ routeStopsCall = Idle /\ routeStopsResponse = Idle
    /\ predCall = Idle /\ predResponse = Idle
    /\ routesCall = Idle /\ routesResponse = Idle

\* The call of the bus adapter.
BusGetPredictions ==
    /\ busCall # Idle
    /\ busResult = Idle
    /\ busResult' = AcTransitGetPredictions(busCall.stopId, busCall.route,
                        busCall.response, busCall.now, busCall.tzOffset)
    /\ UNCHANGED <<busCall, railCall, railResult, stopsCall, stopsResponse,
                   dirCall, dirResponse, db, cacheTasks,
                   predCall, predResponse, routesCall, routesResponse,
                   predCache, adminCall, adminResponse, peerCall, peerResponse,
                   routeStopsCall, routeStopsResponse>>

SpecBus == BusInit /\ [][BusGetPredictions]_vars


(***************************************************************************)
(* Rail adapter: BartClient                                                *)
(***************************************************************************)
MaxEtd == 2   \* most destination records (etd) of a station
MaxEst == 2   \* most estimates of one destination record

UpperToLower ==
    ("A" :> "a") @@ ("B" :> "b") @@ ("C" :> "c") @@ ("D" :> "d") @@
    ("E" :> "e") @@ ("F" :> "f") @@ ("G" :> "g") @@ ("H" :> "h") @@
    ("I" :> "i") @@ ("J" :> "j") @@ ("K" :> "k") @@ ("L" :> "l") @@
    ("M" :> "m") @@ ("N" :> "n") @@ ("O" :> "o") @@ ("P" :> "p") @@
    ("Q" :> "q") @@ ("R" :> "r") @@ ("S" :> "s") @@ ("T" :> "t") @@
    ("U" :> "u") @@ ("V" :> "v") @@ ("W" :> "w") @@ ("X" :> "x") @@
    ("Y" :> "y") @@ ("Z" :> "z")

LowerToUpper ==
    ("a" :> "A") @@ ("b" :> "B") @@ ("c" :> "C") @@ ("d" :> "D") @@
    ("e" :> "E") @@ ("f" :> "F") @@ ("g" :> "G") @@ ("h" :> "H") @@
    ("i" :> "I") @@ ("j" :> "J") @@ ("k" :> "K") @@ ("l" :> "L") @@
    ("m" :> "M") @@ ("n" :> "N") @@ ("o" :> "O") @@ ("p" :> "P") @@
    ("q" :> "Q") @@ ("r" :> "R") @@ ("s" :> "S") @@ ("t" :> "T") @@
    ("u" :> "U") @@ ("v" :> "V") @@ ("w" :> "W") @@ ("x" :> "X") @@
    ("y" :> "Y") @@ ("z" :> "Z")

LowerChar(c) == IF c \in DOMAIN UpperToLower THEN UpperToLower[c] ELSE c

UpperChar(c) == IF c \in DOMAIN LowerToUpper THEN LowerToUpper[c] ELSE c

\* String.prototype.toLowerCase()
ToLowerCase(s) == [i \in 1..Len(s) |-> LowerChar(s[i])]

\* String.prototype.toUpperCase()
ToUpperCase(s) == [i \in 1..Len(s) |-> UpperChar(s[i])]

\* String.prototype.charAt(0): the first character, or the empty string.
CharAt0(s) == IF s = <<>> THEN <<>> ELSE <<s[1]>>

\* new Date(d.getTime() + k) for k milliseconds, 0 <= k.
AddMillis(d, k) == <<d[1] + ((d[2] + k) \div MsPerMinute), (d[2] + k) % MsPerMinute>>

\* Estimates the upstream may report for a destination.
BartEstimateSamples ==
    { [minutes |-> <<"1", "2">>, direction |-> <<"N", "o", "r", "t", "h">>, color |-> <<"R", "E", "D">>, cancelflag |-> "0"],
      [minutes |-> <<"L", "e", "a", "v", "i", "n", "g">>, direction |-> <<"N", "o", "r", "t", "h">>, color |-> <<"R", "e", "d">>, cancelflag |-> "0"],
      [minutes |-> <<"3">>, direction |-> <<"S", "o", "u", "t", "h">>, color |-> <<"R", "E", "D">>, cancelflag |-> "0"],
      [minutes |-> <<"-", "1">>, direction |-> <<"N", "o", "r", "t", "h">>, color |-> <<"B", "L", "U", "E">>, cancelflag |-> "0"],
      [minutes |-> <<"5">>, direction |-> <<"N", "o", "r", "t", "h">>, color |-> <<"R", "E", "D">>, cancelflag |-> "1"],
      [minutes |-> <<>>, direction |-> <<"n", "o", "r", "t", "h">>, color |-> <<"R", "E", "D">>, cancelflag |-> "0"] }

BartDestinations == <<"Richmond", "Antioch", "Millbrae">>

\* The k-th destination record of a station: a destination and its
\* estimates (a missing estimate key reads as the empty list).
BartEtdSet(k) ==
    [destination : {BartDestinations[k]},
     estimate : SeqsUpTo(BartEstimateSamples, MaxEst)]

BartEtdLists ==
    UNION { {l \in [1..n -> UNION {BartEtdSet(k) : k \in 1..n}] :
                \A k \in 1..n : l[k].destination = BartDestinations[k]} :
            n \in 0..MaxEtd }

NoStation == [name |-> "", abbr |-> "", hasEtd |-> FALSE, etd |-> <<>>]

\* data.root.station[0] when it is there; hasEtd tells whether it has an
\* etd key (a station without departures has none).
BartStationSet ==
    [name : {"Embarcadero"}, abbr : {"EMBR"}, hasEtd : {TRUE}, etd : BartEtdLists]
    \cup [name : {"Embarcadero"}, abbr : {"EMBR"}, hasEtd : {FALSE}, etd : {<<>>}]

\* What fetch and response.json() give the adapter.
RailResponseSet ==
    [kind : {"network-error"}, status : {0}, station : {NoStation}]
    \cup [kind : {"http"}, status : {500}, station : {NoStation}]
    \cup [kind : {"bad-json", "no-station"}, status : {200}, station : {NoStation}]
    \cup [kind : {"http"}, status : {200}, station : BartStationSet]

\* The line colors a caller asks for.
RailLinesSamples == { << <<"r", "e", "d">> >>, << <<"R", "e", "d">>, <<"b", "l", "u", "e">> >> }

RailDirections == { <<"n">>, <<"s">> }

\* Milliseconds the clock advances between two readings of new Date()
\* inside one call.
ClockSteps == {0, 1}

RailCallSet ==
    [station : {"EMBR"}, lines : RailLinesSamples, direction : RailDirections,
     response : RailResponseSet,
     now : {<<ReferenceMinute, 59999>>}, clockStep : ClockSteps]


\* The estimates of a station in the order the two nested loops visit
\* them, each with the destination of its etd record.
RECURSIVE FlattenEtd(_)
FlattenEtd(etds) ==
    IF etds = <<>> THEN <<>>
    ELSE [i \in 1..Len(Head(etds).estimate) |->
             [destination |-> Head(etds).destination,
              estimate |-> Head(etds).estimate[i]]]
         \o FlattenEtd(Tail(etds))

\* BartIncluded without the test of cancelflag.
BartIncluded_KeepCancelled(estimate, lines, direction) ==
    LET apiDirection == CharAt0(ToLowerCase(estimate.direction))
        lineColor == ToLowerCase(estimate.color)
    IN  /\ ~(apiDirection # direction)
        /\ ~(~(\E i \in 1..Len(lines) : ToLowerCase(lines[i]) = lineColor))

\* The three filters of the loop body: an estimate goes on when none of
\* the three "continue" statements is taken.
BartIncluded(estimate, lines, direction) ==
    LET apiDirection == CharAt0(ToLowerCase(estimate.direction))
        lineColor == ToLowerCase(estimate.color)
    IN  /\ ~(apiDirection # direction)
        /\ ~(~(\E i \in 1..Len(lines) : ToLowerCase(lines[i]) = lineColor))
        /\ ~(estimate.cancelflag = "1")

\* estimate.minutes === 'Leaving' ? 0 : parseInt(estimate.minutes)
BartMinutesUntil(estimate) ==
    IF estimate.minutes = <<"L", "e", "a", "v", "i", "n", "g">>
    THEN <<0>> ELSE ParseInt(estimate.minutes)

\* The prediction built for an included estimate whose minutes are a
\* number, when new Date() reads now.
BartConvert(station, item, now) ==
    LET minutesUntil == BartMinutesUntil(item.estimate)
        arrivalTime == AddMinutes(now, minutesUntil)
    IN  [arrivalTime |-> ToISOString(arrivalTime),
         departureTime |-> ToISOString(arrivalTime),
         stopName |-> station.name,
         stopId |-> station.abbr,
         route |-> ToUpperCase(ToLowerCase(item.estimate.color)),
         direction |-> item.destination,
         vehicleId |-> "",
         minutesUntilArrival |-> minutesUntil[1]]

\* The loop over the estimates: items still to visit, the predictions
\* pushed so far and the number of clock readings so far.  The result is
\* the list of predictions, or NaN when toISOString met an invalid Date.
RECURSIVE BartCollect(_, _, _, _, _, _, _)
BartCollect(station, items, lines, direction, now, clockStep, acc) ==
    IF items = <<>> THEN acc
    ELSE IF ~BartIncluded(Head(items).estimate, lines, direction)
    THEN BartCollect(station, Tail(items), lines, direction, now, clockStep, acc)
    ELSE IF BartMinutesUntil(Head(items).estimate) = NaN
    THEN NaN
    ELSE BartCollect(station, Tail(items), lines, direction, now, clockStep,
             [read |-> acc.read + 1,
              predictions |-> Append(acc.predictions,
                  BartConvert(station, Head(items),
                              AddMillis(now, acc.read * clockStep)))])

\* Where a stable sort places x in a list sorted by arrival time: after
\* every element that does not arrive later than x.
RECURSIVE InsertByArrival(_, _)
InsertByArrival(sorted, x) ==
    IF sorted = <<>> THEN <<x>>
    ELSE IF InstantLess(ParseISO(x.arrivalTime), ParseISO(Head(sorted).arrivalTime))
    THEN <<x>> \o sorted
    ELSE <<Head(sorted)>> \o InsertByArrival(Tail(sorted), x)

\* predictions.sort((a, b) => new Date(a.arrivalTime) - new Date(b.arrivalTime))
RECURSIVE SortByArrival(_)
SortByArrival(predictions) ==
    IF predictions = <<>> THEN <<>>
    ELSE InsertByArrival(SortByArrival(SubSeq(predictions, 1, Len(predictions) - 1)),
                         predictions[Len(predictions)])

\* BartGetPredictions that treats a missing station record and a station
\* without departures as errors.
BartGetPredictions_EmptyThrows(station, lines, direction, resp, now, clockStep) ==
    IF resp.kind = "network-error" THEN Thrown("fetch failed")
    ELSE IF ~ResponseOk(resp)
    THEN Thrown("BART API error: " \o StatusString[resp.status])
    ELSE IF resp.kind = "bad-json" THEN Thrown("SyntaxError")
    ELSE IF resp.kind = "no-station" THEN Thrown("No station")
    ELSE LET stationData == resp.station
             etds == IF stationData.hasEtd THEN stationData.etd ELSE <<>>
             collected == BartCollect(stationData, FlattenEtd(etds), lines,
                              direction, now, clockStep,
                              [read |-> 0, predictions |-> <<>>])
         IN  IF etds = <<>> THEN Thrown("No departures")
             ELSE IF collected = NaN THEN Thrown("Invalid time value")
             ELSE Returned(SortByArrival(collected.predictions))

\* BartClient.getPredictions(station, lines, direction) against the
\* upstream answer resp; the catch block logs and rethrows.
BartGetPredictions(station, lines, direction, resp, now, clockStep) ==
    IF resp.kind = "network-error" THEN Thrown("fetch failed")
    ELSE IF ~ResponseOk(resp)
    THEN Thrown("BART API error: " \o StatusString[resp.status])
    ELSE IF resp.kind = "bad-json" THEN Thrown("SyntaxError")
    ELSE IF resp.kind = "no-station" THEN Returned(<<>>)
    ELSE LET stationData == resp.station
             etds == IF stationData.hasEtd THEN stationData.etd ELSE <<>>
             collected == BartCollect(stationData, FlattenEtd(etds), lines,
                              direction, now, clockStep,
                              [read |-> 0, predictions |-> <<>>])
         IN  IF collected = NaN THEN Thrown("Invalid time value")
             ELSE Returned(SortByArrival(collected.predictions))

\* The adapter is about to be called with railCall.
RailInit ==
    /\ railCall \in RailCallSet
    /\ railResult = Idle
    /\ busCall = Idle /\ busResult = Idle
    /\ stopsCall = Idle /\ stopsResponse = Idle
    /\ dirCall = Idle /\ dirResponse = Idle
    /\ db = Idle /\ cacheTasks = <<>>
    /\ predCache = Idle
    /\ adminCall = Idle /\ adminResponse = Idle
    /\ peerCall = Idle /\ peerResponse = Idle
    /\ routeStopsCall = Idle /\ routeStopsResponse = Idle
    /\ predCall = Idle /\ predResponse = Idle
    /\ routesCall = Idle /\ routesResponse = Idle

\* The call of the rail adapter.
RailGetPredictions ==
    /\ railCall # Idle
    /\ railResult = Idle
    /\ railResult' = BartGetPredictions(railCall.station, railCall.lines,
                         railCall.direction, railCall.response,
                         railCall.now, railCall.clockStep)
    /\ UNCHANGED <<railCall, busCall, busResult, stopsCall, stopsResponse,
                   dirCall, dirResponse, db, cacheTasks,
                   predCall, predResponse, routesCall, routesResponse,
                   predCache, adminCall, adminResponse, peerCall, peerResponse,
                   routeStopsCall, routeStopsResponse>>

SpecRail == RailInit /\ [][RailGetPredictions]_vars


(***************************************************************************)
(* Properties of the adapters                                              *)
(***************************************************************************)
HasReturned(r) == r # Idle /\ ~r.threw

PredictionWellFormed(p) ==
    /\ p.minutesUntilArrival >= 0
    /\ InstantLeq(ParseISO(p.departureTime), ParseISO(p.arrivalTime))

\* The bus half of C1 alone: every prediction the bus adapter returns has
\* minutesUntilArrival >= 0 and departureTime <= arrivalTime.
BusPredictionsWellFormed ==
    HasReturned(busResult) =>
        \A i \in 1..Len(busResult.value) : PredictionWellFormed(busResult.value[i])

\* C1: every prediction returned by the bus adapter or by the rail adapter,
\* whatever the upstream payload and the current time, has
\* minutesUntilArrival >= 0 and departureTime <= arrivalTime.
C1_PredictionsWellFormed ==
    \A r \in {busResult, railResult} :
        HasReturned(r) =>
            \A i \in 1..Len(r.value) : PredictionWellFormed(r.value[i])

\* The bus adapter received an envelope: the route passed the guard, the
\* upstream answered with a success status and the body fits the schema.
BusEnvelopeReceived ==
    /\ busResult # Idle
    /\ busCall.route = "NL"
    /\ busCall.response.kind = "http"
    /\ ResponseOk(busCall.response)

\* C2: when the envelope of the bus upstream has at least one error entry,
\* the call fails with the message of the first entry and returns no
\* prediction, also when the envelope has predictions.
C2_ErrorTakesPrecedence ==
    (BusEnvelopeReceived /\ Len(busCall.response.body.error) >= 1) =>
        /\ busResult.threw
        /\ busResult.message
             = "AC Transit API error: " \o busCall.response.body.error[1].msg
        /\ busResult.value = <<>>

\* An envelope with an error entry and with predictions was answered by
\* the failure.
C2_Witness ==
    /\ BusEnvelopeReceived
    /\ Len(busCall.response.body.error) >= 1
    /\ Len(busCall.response.body.prd) >= 1
    /\ busResult.threw

CountIn(seq, x) == Cardinality({i \in 1..Len(seq) : seq[i] = x})

SameBag(s, t) ==
    \A x \in {s[i] : i \in 1..Len(s)} \cup {t[i] : i \in 1..Len(t)} :
        CountIn(s, x) = CountIn(t, x)

\* The rail adapter returned a list computed from a station record.
RailStationAnswered ==
    /\ HasReturned(railResult)
    /\ railCall.response.kind = "http"

RailItems == FlattenEtd(railCall.response.station.etd)

\* The condition of C3 on one estimate, for the requested lines and
\* direction token.
RailEstimateMatches(e) ==
    /\ e.direction # <<>>
    /\ <<LowerChar(e.direction[1])>> = railCall.direction
    /\ \E i \in 1..Len(railCall.lines) :
           ToLowerCase(railCall.lines[i]) = ToLowerCase(e.color)
    /\ e.cancelflag # "1"

\* What tells the predictions of different estimates apart: line,
\* destination and minutes.
PredictionKey(p) == <<p.route, p.direction, p.minutesUntilArrival>>

RECURSIVE SelectSeq2(_, _)
SelectSeq2(s, keep) ==
    IF s = <<>> THEN <<>>
    ELSE IF keep[1] THEN <<Head(s)>> \o SelectSeq2(Tail(s), Tail(keep))
    ELSE SelectSeq2(Tail(s), Tail(keep))

RailExpectedKeys ==
    LET keep == [i \in 1..Len(RailItems) |-> RailEstimateMatches(RailItems[i].estimate)]
        kept == SelectSeq2(RailItems, keep)
    IN  [i \in 1..Len(kept) |->
            <<ToUpperCase(kept[i].estimate.color), kept[i].destination,
              BartMinutesUntil(kept[i].estimate)[1]>>]

\* C3: the list the rail adapter returns has a prediction for an upstream
\* estimate exactly when the lower-cased first character of its direction
\* is the requested token, its color is one of the requested lines without
\* regard to case, and its cancelflag is not "1".
C3_RailFilter ==
    RailStationAnswered =>
        SameBag([i \in 1..Len(railResult.value) |-> PredictionKey(railResult.value[i])],
                RailExpectedKeys)

\* A list was returned that has a prediction, while a cancelled estimate
\* of a requested line and of the requested direction was left out.
C3_Witness ==
    /\ RailStationAnswered
    /\ railResult.value # <<>>
    /\ \E i \in 1..Len(RailItems) :
          LET e == RailItems[i].estimate
          IN  /\ e.cancelflag = "1"
              /\ CharAt0(ToLowerCase(e.direction)) = railCall.direction
              /\ \E j \in 1..Len(railCall.lines) :
                     ToLowerCase(railCall.lines[j]) = ToLowerCase(e.color)

SortedByMinutes(ps) ==
    \A i \in 1..Len(ps), j \in 1..Len(ps) :
        i < j => ps[i].minutesUntilArrival <= ps[j].minutesUntilArrival

RailResultCap == 3

\* C4: the rail adapter returns its predictions in ascending order of
\* minutesUntilArrival and never returns more than 3 of them.
C4_RailSortedAndCapped ==
    HasReturned(railResult) =>
        /\ SortedByMinutes(railResult.value)
        /\ Len(railResult.value) <= RailResultCap

\* The ordering half of C4 alone.
RailSorted == HasReturned(railResult) => SortedByMinutes(railResult.value)


(***************************************************************************)
(* Stops endpoint: the upstream route payload and the stop consolidator    *)
(***************************************************************************)
MaxDirs == 2          \* most direction records of a route payload
MaxStopsPerDir == 2   \* most stops of one direction record

DigitChar == <<"0", "1", "2", "3", "4", "5", "6", "7", "8", "9">>

\* Number.prototype.toString() of a natural number.
RECURSIVE NumberToString(_)
NumberToString(n) ==
    IF n < 10 THEN <<DigitChar[n + 1]>>
    ELSE NumberToString(n \div 10) \o <<DigitChar[(n % 10) + 1]>>

\* Array.prototype.join(',') of a list of character sequences.
RECURSIVE Join(_)
Join(l) ==
    IF l = <<>> THEN <<>>
    ELSE IF Len(l) = 1 THEN l[1]
    ELSE l[1] \o <<",">> \o Join(Tail(l))

\* Stops as the upstream reports them.  A stop id has one name and one
\* position; two ids share the name "Broadway".
StopSamples ==
    { [StopId |-> 51, Name |-> "Broadway", Latitude |-> 37, Longitude |-> -122],
      [StopId |-> 52, Name |-> "Broadway", Latitude |-> 38, Longitude |-> -123],
      [StopId |-> 55, Name |-> "adeline St", Latitude |-> 39, Longitude |-> -124] }

StopNames == {st.Name : st \in StopSamples}

\* String.prototype.localeCompare orders "adeline St" before "Broadway";
\* the order of the UTF-16 code units (SQLite's BINARY collation) is the
\* other way round.
LocaleRank == ("adeline St" :> 1) @@ ("Broadway" :> 2)

BinaryRank == ("Broadway" :> 1) @@ ("adeline St" :> 2)

LocaleCompare(a, b) == LocaleRank[a] - LocaleRank[b]

DestinationOf == ("To SF" :> "San Francisco") @@ ("To Eastmont" :> "Eastmont Transit Center")

DirectionCodes == DOMAIN DestinationOf

\* One element of the upstream answer to /route/{route}/stops.
RouteDirectionSet ==
    { [Direction |-> dc, Destination |-> DestinationOf[dc], Stops |-> sts] :
        dc \in DirectionCodes, sts \in SeqsUpTo(StopSamples, MaxStopsPerDir) }

RouteStopsDataSet == SeqsUpTo(RouteDirectionSet, MaxDirs)

\* The (direction, stop) pairs of a payload in the order of the two nested
\* loops.
RECURSIVE FlattenRouteStops(_)
FlattenRouteStops(data) ==
    IF data = <<>> THEN <<>>
    ELSE [j \in 1..Len(Head(data).Stops) |->
             [stopId |-> NumberToString(Head(data).Stops[j].StopId),
              stopCode |-> NumberToString(Head(data).Stops[j].StopId),
              stopName |-> Head(data).Stops[j].Name,
              lat |-> Head(data).Stops[j].Latitude,
              lon |-> Head(data).Stops[j].Longitude,
              direction |-> Head(data).Direction]]
         \o FlattenRouteStops(Tail(data))

\* MapPush without the lookup of the name: every entry opens a group.
MapPush_NoGrouping(map, entry) ==
    Append(map, [name |-> entry.stopName, list |-> <<entry>>])

\* stopsByName after one more entry: a Map from name to list, kept as the
\* list of its [name, list] pairs in insertion order.
MapPush(map, entry) ==
    IF \E g \in 1..Len(map) : map[g].name = entry.stopName
    THEN [g \in 1..Len(map) |->
            IF map[g].name = entry.stopName
            THEN [name |-> map[g].name, list |-> Append(map[g].list, entry)]
            ELSE map[g]]
    ELSE Append(map, [name |-> entry.stopName, list |-> <<entry>>])

RECURSIVE GroupByName(_, _)
GroupByName(entries, map) ==
    IF entries = <<>> THEN map
    ELSE GroupByName(Tail(entries), MapPush(map, Head(entries)))

\* The entry built for one name.
ConsolidatedEntry(name, stopList) ==
    IF Len(stopList) = 1
    THEN [stopId |-> stopList[1].stopId,
          stopCode |-> stopList[1].stopCode,
          stopName |-> stopList[1].stopName,
          lat |-> stopList[1].lat,
          lon |-> stopList[1].lon]
    ELSE [stopId |-> Join([i \in 1..Len(stopList) |-> stopList[i].stopId]),
          stopCode |-> Join([i \in 1..Len(stopList) |-> stopList[i].stopCode]),
          stopName |-> name,
          lat |-> stopList[1].lat,
          lon |-> stopList[1].lon]

\* Where a stable sort places x in a list sorted with localeCompare.
RECURSIVE InsertByName(_, _)
InsertByName(sorted, x) ==
    IF sorted = <<>> THEN <<x>>
    ELSE IF LocaleCompare(x.stopName, Head(sorted).stopName) < 0
    THEN <<x>> \o sorted
    ELSE <<Head(sorted)>> \o InsertByName(Tail(sorted), x)

\* .sort((a, b) => a.stopName.localeCompare(b.stopName))
RECURSIVE SortByName(_)
SortByName(l) ==
    IF l = <<>> THEN <<>>
    ELSE InsertByName(SortByName(SubSeq(l, 1, Len(l) - 1)), l[Len(l)])

\* One output entry per group of the map, then the sort.
EntriesOfMap(map) ==
    SortByName([g \in 1..Len(map) |-> ConsolidatedEntry(map[g].name, map[g].list)])

\* The stop consolidator of Stops.handle: group by name, one entry per
\* name, sort by name.
ConsolidateStops(routeStopsData) ==
    EntriesOfMap(GroupByName(FlattenRouteStops(routeStopsData), <<>>))


(***************************************************************************)
(* The metadata database and the cache write of the stops endpoint         *)
(*                                                                         *)
(* A route row is identified by <<agency code, route code>> and a stop row *)
(* by <<agency code, stop code>> (both pairs are UNIQUE in the schema);    *)
(* a direction row has an AUTOINCREMENT id, because nothing in the schema  *)
(* keeps two rows of one route from having the same direction_code.        *)
(* Times (updated_at, the clock of a request) are milliseconds since the   *)
(* seed was loaded.                                                        *)
(***************************************************************************)
SeedDb ==
    [agencies |-> {"actransit"},
     agencyUpdatedAt |-> [a \in {"actransit"} |-> 0],
     routes |-> {[agency |-> "actransit", code |-> "NL",
                  name |-> "Transbay Night Line", type |-> "bus", active |-> TRUE,
                  updatedAt |-> 0]},
     directions |-> {},
     stops |-> {},
     stopRoutes |-> {}]

SeedDbNoRoute == [SeedDb EXCEPT !.routes = {}]

\* SELECT id FROM directions WHERE route_id = ? AND direction_code = ?,
\* .first(): the row with the least id, 0 for no row.
DirectionIdOf(d, routeKey, code) ==
    LET ids == {r.id : r \in {x \in d.directions : x.route = routeKey /\ x.code = code}}
    IN  IF ids = {} THEN 0 ELSE CHOOSE i \in ids : \A o \in ids : i <= o

\* The id AUTOINCREMENT gives the next direction row.
NextDirectionId(d) ==
    IF d.directions = {} THEN 1
    ELSE 1 + (CHOOSE i \in {r.id : r \in d.directions} :
                  \A o \in {r.id : r \in d.directions} : i >= o)

\* A cache write at its start.  pc is the statement it awaits next, k and j
\* the direction record and the stop it is at, direction the id it read,
\* at the time CURRENT_TIMESTAMP gives its statements.
NewCacheTask(agencyCode, routeCode, routeStopsData, at) ==
    [kind |-> "stops", agencyCode |-> agencyCode, routeCode |-> routeCode,
     data |-> routeStopsData, at |-> at,
     pc |-> "agency", k |-> 1, j |-> 1, direction |-> 0]

TaskDone(t) == [t EXCEPT !.pc = "done"]

\* The loop over the direction records reaches record k.
TaskAtDirection(t, k) ==
    IF k <= Len(t.data)
    THEN [t EXCEPT !.pc = "dirSelect", !.k = k, !.j = 1, !.direction = 0]
    ELSE TaskDone(t)

\* The loop over the stops of record t.k reaches stop j.
TaskAtStop(t, j) ==
    IF j <= Len(t.data[t.k].Stops)
    THEN [t EXCEPT !.pc = "stopUpsert", !.j = j]
    ELSE TaskAtDirection(t, t.k + 1)

\* INSERT INTO stops ... ON CONFLICT(agency_id, stop_code) DO UPDATE ...
\* CURRENT_TIMESTAMP keeps whole seconds.
SqlTimestamp(at) == (at \div 1000) * 1000

UpsertStop(d, agencyCode, stop, at) ==
    [d EXCEPT !.stops =
        {r \in d.stops : ~(r.agency = agencyCode /\ r.code = NumberToString(stop.StopId))}
        \cup {[agency |-> agencyCode, code |-> NumberToString(stop.StopId),
               name |-> stop.Name, lat |-> stop.Latitude, lon |-> stop.Longitude,
               active |-> TRUE, updatedAt |-> SqlTimestamp(at)]}]

\* INSERT INTO stop_routes ... ON CONFLICT(stop_id, route_id, direction_id)
\* DO UPDATE ...
UpsertStopRoute(d, stopKey, routeKey, directionId, order) ==
    [d EXCEPT !.stopRoutes =
        {r \in d.stopRoutes :
            ~(r.stop = stopKey /\ r.route = routeKey /\ r.direction = directionId)}
        \cup {[stop |-> stopKey, route |-> routeKey, direction |-> directionId,
               seq |-> order, active |-> TRUE]}]

\* One awaited statement of Stops.cacheStopsData: the database and the
\* task after it.  The Order of a stop is its place in its direction.
CacheStopsDataStep(d, t) ==
    LET routeKey == <<t.agencyCode, t.routeCode>>
        rec == t.data[t.k]
        stop == rec.Stops[t.j]
    IN  CASE t.pc = "agency" ->
                [db |-> d,
                 task |-> IF t.agencyCode \in d.agencies
                          THEN [t EXCEPT !.pc = "route"] ELSE TaskDone(t)]
          [] t.pc = "route" ->
                [db |-> d,
                 task |-> IF \E r \in d.routes : <<r.agency, r.code>> = routeKey
                          THEN TaskAtDirection(t, 1) ELSE TaskDone(t)]
          [] t.pc = "dirSelect" ->
                LET id == DirectionIdOf(d, routeKey, rec.Direction)
                IN  [db |-> d,
                     task |-> IF id = 0 THEN [t EXCEPT !.pc = "dirInsert"]
                              ELSE TaskAtStop([t EXCEPT !.direction = id], 1)]
          [] t.pc = "dirInsert" ->
                [db |-> [d EXCEPT !.directions = @ \cup
                            {[id |-> NextDirectionId(d), route |-> routeKey,
                              code |-> rec.Direction, headsign |-> rec.Destination,
                              active |-> TRUE]}],
                 task |-> [t EXCEPT !.pc = "dirReselect"]]
          [] t.pc = "dirReselect" ->
                [db |-> d,
                 task |-> TaskAtStop([t EXCEPT !.direction =
                                         DirectionIdOf(d, routeKey, rec.Direction)], 1)]
          [] t.pc = "stopUpsert" ->
                [db |-> UpsertStop(d, t.agencyCode, stop, t.at),
                 task |-> [t EXCEPT !.pc = "stopSelect"]]
          [] t.pc = "stopSelect" ->
                [db |-> d,
                 task |-> IF /\ \E r \in d.stops :
                                   r.agency = t.agencyCode
                                   /\ r.code = NumberToString(stop.StopId)
                             /\ t.direction # 0
                          THEN [t EXCEPT !.pc = "linkUpsert"]
                          ELSE TaskAtStop(t, t.j + 1)]
          [] t.pc = "linkUpsert" ->
                [db |-> UpsertStopRoute(d, <<t.agencyCode, NumberToString(stop.StopId)>>,
                                        routeKey, t.direction, t.j),
                 task |-> TaskAtStop(t, t.j + 1)]

\* The database after a cache write that runs alone from t to its end.
RECURSIVE RunCacheTask(_, _)
RunCacheTask(d, t) ==
    IF t.pc = "done" THEN d
    ELSE RunCacheTask(CacheStopsDataStep(d, t).db, CacheStopsDataStep(d, t).task)

\* The database after route NL's payload was cached into the seed, at the
\* time the seed was loaded.
CacheOf(routeStopsData) ==
    RunCacheTask(SeedDb, NewCacheTask("actransit", "NL", routeStopsData, 0))

\* The rows of the query of getCachedStops (SELECT DISTINCT ... WHERE
\* a.code = ? AND r.route_code = ? AND s.active = TRUE).
CachedStopRows(d, agencyCode, routeCode) ==
    { [stopId |-> s.code, stopCode |-> s.code, stopName |-> s.name,
       lat |-> s.lat, lon |-> s.lon] :
        s \in { x \in d.stops :
                  /\ x.agency = agencyCode
                  /\ agencyCode \in d.agencies
                  /\ x.active
                  /\ \E sr \in d.stopRoutes :
                        /\ sr.stop = <<x.agency, x.code>>
                        /\ \E r \in d.routes :
                              <<r.agency, r.code>> = sr.route /\ r.code = routeCode } }

\* The orders in which ORDER BY s.stop_name may deliver the rows: rows of
\* one name come in any order.
RowOrders(rows) ==
    { f \in [1..Cardinality(rows) -> rows] :
        /\ \A a \in 1..Cardinality(rows), b \in 1..Cardinality(rows) :
              a < b => /\ f[a] # f[b]
                       /\ BinaryRank[f[a].stopName] <= BinaryRank[f[b].stopName] }

\* What getCachedStops returns for rows delivered in the order rowSeq.
CachedStopsOf(rowSeq) == EntriesOfMap(GroupByName(rowSeq, <<>>))


(***************************************************************************)
(* Stops.handle                                                            *)
(***************************************************************************)
NoRouteStops == <<>>

\* What fetch and response.json() give the stops and stop-directions
\* endpoints for /route/{route}/stops.
RouteStopsResponseSet ==
    [kind : {"network-error"}, status : {0}, data : {NoRouteStops}]
    \cup [kind : {"http"}, status : {404, 500}, data : {NoRouteStops}]
    \cup [kind : {"bad-json"}, status : {200}, data : {NoRouteStops}]
    \cup [kind : {"http"}, status : {200}, data : RouteStopsDataSet]

\* A payload cached on an earlier day, which the upstream need not report
\* any more.
StalePayload ==
    << [Direction |-> "To SF", Destination |-> DestinationOf["To SF"],
        Stops |-> << CHOOSE st \in StopSamples : st.StopId = 51,
                     CHOOSE st \in StopSamples : st.StopId = 55 >>],
       [Direction |-> "To Eastmont", Destination |-> DestinationOf["To Eastmont"],
        Stops |-> << CHOOSE st \in StopSamples : st.StopId = 52 >>] >>

\* The databases a request may find: the seed with or without the route
\* row, the cache of an earlier payload, the cache of the payload the
\* upstream reports now.
DbSetFor(resp) ==
    {SeedDb, SeedDbNoRoute, CacheOf(StalePayload)}
    \cup (IF resp.kind = "http" /\ resp.status = 200 THEN {CacheOf(resp.data)} ELSE {})

Agencies == {"actransit", "bart"}

\* The clock of a request: one hour and 25 hours after the seed was loaded.
StopsNowSamples == {3600000, 90000000}

StopsCallSet ==
    [agency : Agencies, route : {"NL"}, response : RouteStopsResponseSet,
     now : StopsNowSamples]

\* The JSON bodies of the stops endpoint, with the HTTP status; servedFrom
\* is not part of the body: it records the branch that built it.
StopsSuccess(stops, from) ==
    [status |-> 200, success |-> TRUE, error |-> "", stops |-> stops, servedFrom |-> from]

StopsFailure(status, error) ==
    [status |-> status, success |-> FALSE, error |-> error, stops |-> <<>>,
     servedFrom |-> "error"]

\* Stops.handle after the cache lookup came back empty: the response.
StopsFromUpstream(agency, route, resp) ==
    IF agency # "actransit"
    THEN StopsFailure(400, "Only AC Transit is currently supported")
    ELSE IF resp.kind = "network-error" THEN StopsFailure(500, "fetch failed")
    ELSE IF ~ResponseOk(resp)
    THEN IF resp.status = 404
         THEN StopsFailure(404, "Route " \o route \o " not found")
         ELSE StopsFailure(500, "AC Transit API error: " \o StatusString[resp.status])
    ELSE IF resp.kind = "bad-json" THEN StopsFailure(500, "SyntaxError")
    ELSE StopsSuccess(ConsolidateStops(resp.data), "upstream")

\* A request is about to reach the stops endpoint.
StopsInit ==
    /\ stopsCall \in StopsCallSet
    /\ db \in DbSetFor(stopsCall.response)
    /\ stopsResponse = Idle
    /\ cacheTasks = <<>>
    /\ predCache = Idle
    /\ adminCall = Idle /\ adminResponse = Idle
    /\ peerCall = Idle /\ peerResponse = Idle
    /\ routeStopsCall = Idle /\ routeStopsResponse = Idle
    /\ busCall = Idle /\ busResult = Idle
    /\ railCall = Idle /\ railResult = Idle
    /\ dirCall = Idle /\ dirResponse = Idle
    /\ predCall = Idle /\ predResponse = Idle
    /\ routesCall = Idle /\ routesResponse = Idle

\* Stops.handle answered from the cache: getCachedStops returned entries.
StopsHandleCached ==
    /\ stopsCall # Idle
    /\ stopsResponse = Idle
    /\ CachedStopRows(db, stopsCall.agency, stopsCall.route) # {}
    /\ \E rowSeq \in RowOrders(CachedStopRows(db, stopsCall.agency, stopsCall.route)) :
          stopsResponse' = StopsSuccess(CachedStopsOf(rowSeq), "cache")
    /\ UNCHANGED <<stopsCall, db, cacheTasks, busCall, busResult, railCall,
                   railResult, dirCall, dirResponse,
                   predCall, predResponse, routesCall, routesResponse,
                   predCache, adminCall, adminResponse, peerCall, peerResponse,
                   routeStopsCall, routeStopsResponse>>

\* Stops.handle when the cache has nothing: the upstream is asked, and a
\* successful answer is handed to waitUntil for caching.
StopsHandleFetch ==
    /\ stopsCall # Idle
    /\ stopsResponse = Idle
    /\ CachedStopRows(db, stopsCall.agency, stopsCall.route) = {}
    /\ stopsResponse' = StopsFromUpstream(stopsCall.agency, stopsCall.route,
                                          stopsCall.response)
    /\ cacheTasks' =
          IF StopsFromUpstream(stopsCall.agency, stopsCall.route,
                               stopsCall.response).success
          THEN Append(cacheTasks, NewCacheTask(stopsCall.agency, stopsCall.route,
                                               stopsCall.response.data, stopsCall.now))
          ELSE cacheTasks
    /\ UNCHANGED <<stopsCall, db, busCall, busResult, railCall,
                   railResult, dirCall, dirResponse,
                   predCall, predResponse, routesCall, routesResponse,
                   predCache, adminCall, adminResponse, peerCall, peerResponse,
                   routeStopsCall, routeStopsResponse>>

\* A cache write in flight runs its next statement.
CacheStopsData ==
    \E i \in 1..Len(cacheTasks) :
        /\ cacheTasks[i].kind = "stops"
        /\ cacheTasks[i].pc \notin {"done", "failed"}
        /\ db' = CacheStopsDataStep(db, cacheTasks[i]).db
        /\ cacheTasks' = [cacheTasks EXCEPT ![i] = CacheStopsDataStep(db, cacheTasks[i]).task]
        /\ UNCHANGED <<stopsCall, stopsResponse, busCall, busResult, railCall,
                       railResult, dirCall, dirResponse,
                   predCall, predResponse, routesCall, routesResponse,
                   predCache, adminCall, adminResponse, peerCall, peerResponse,
                   routeStopsCall, routeStopsResponse>>

StopsNext == StopsHandleCached \/ StopsHandleFetch \/ CacheStopsData

SpecStops == StopsInit /\ [][StopsNext]_vars


(***************************************************************************)
(* Properties of the stop consolidator                                     *)
(***************************************************************************)
\* The response carries the consolidator's output for the upstream payload.
StopsConsolidated ==
    /\ stopsResponse # Idle
    /\ stopsResponse.servedFrom = "upstream"

StopsInput == FlattenRouteStops(stopsCall.response.data)

\* The elements of a list without repetition, in the order of their first
\* occurrence.
RECURSIVE DistinctFirstSeen(_, _)
DistinctFirstSeen(l, seen) ==
    IF l = <<>> THEN seen
    ELSE IF \E i \in 1..Len(seen) : seen[i] = Head(l)
    THEN DistinctFirstSeen(Tail(l), seen)
    ELSE DistinctFirstSeen(Tail(l), Append(seen, Head(l)))

\* The ids the payload lists under a name, in the order of the traversal.
IdsOfName(name) ==
    LET keep == [i \in 1..Len(StopsInput) |-> StopsInput[i].stopName = name]
        kept == SelectSeq2(StopsInput, keep)
    IN  [i \in 1..Len(kept) |-> kept[i].stopId]

\* C5: for every name of the upstream payload the consolidator emits a stop
\* whose id is the comma-joined list of the distinct ids of that name in
\* first-seen order; a name with one distinct id gets that id alone, also
\* when the id occurs in several directions.
C5_ConsolidatedIds ==
    StopsConsolidated =>
        \A n \in {StopsInput[i].stopName : i \in 1..Len(StopsInput)} :
            \E e \in 1..Len(stopsResponse.stops) :
                /\ stopsResponse.stops[e].stopName = n
                /\ stopsResponse.stops[e].stopId
                     = Join(DistinctFirstSeen(IdsOfName(n), <<>>))

\* What the code emits instead: the ids of every occurrence, repeated.
StopsIdsJoinedWithRepetition ==
    StopsConsolidated =>
        \A n \in {StopsInput[i].stopName : i \in 1..Len(StopsInput)} :
            \E e \in 1..Len(stopsResponse.stops) :
                /\ stopsResponse.stops[e].stopName = n
                /\ stopsResponse.stops[e].stopId = Join(IdsOfName(n))

\* C6: no two entries of the consolidator's output have the same name, and
\* every name of the input is the name of exactly one entry.
C6_NamesUnique ==
    StopsConsolidated =>
        /\ \A a \in 1..Len(stopsResponse.stops), b \in 1..Len(stopsResponse.stops) :
              a # b => stopsResponse.stops[a].stopName # stopsResponse.stops[b].stopName
        /\ {stopsResponse.stops[e].stopName : e \in 1..Len(stopsResponse.stops)}
             = {StopsInput[i].stopName : i \in 1..Len(StopsInput)}

\* A payload in which one name occurs more than once and a second name
\* occurs too was consolidated.
C6_Witness ==
    /\ StopsConsolidated
    /\ Len(stopsResponse.stops) >= 2
    /\ \E i \in 1..Len(StopsInput), j \in 1..Len(StopsInput) :
          i # j /\ StopsInput[i].stopName = StopsInput[j].stopName


(***************************************************************************)
(* StopDirections.handle: the cache lookup, the direction resolver and the *)
(* rail branch                                                             *)
(***************************************************************************)
\* The characters of a template literal's substitution as one string.
RECURSIVE StringOf(_)
StringOf(s) == IF s = <<>> THEN "" ELSE s[1] \o StringOf(Tail(s))

\* The stop parameter of a request: one id, consolidated ids in both
\* orders, ids with blanks around them, ids no route has.
StopParamSamples ==
    { <<"5", "1">>,
      <<"5", "1", ",", "5", "2">>,
      <<"5", "2", ",", "5", "1">>,
      <<" ", "5", "2", " ", ",", "5", "5">>,
      <<"9", "9">>,
      <<"5", "5", ",", "9", "9">> }

\* stop.split(',').map(id => id.trim()) without the split.
StopCandidates_NoSplit(stop) == <<Trim(stop)>>

\* stop.split(',').map(id => id.trim())
StopCandidates(stop) ==
    LET parts == Split(stop, ",")
    IN  [i \in 1..Len(parts) |-> Trim(parts[i])]

\* routeDirection.Stops.some(s => s.StopId.toString() === stopId)
HasStop(routeDirection, stopId) ==
    \E j \in 1..Len(routeDirection.Stops) :
        NumberToString(routeDirection.Stops[j].StopId) = stopId

\* The body of the inner loop without the test of directionsMap.has: a
\* later candidate replaces the entry of its direction.
DirectionsMapSet_Overwrite(map, routeDirection, stopId) ==
    LET entry == [direction |-> routeDirection.Direction,
                  destination |-> routeDirection.Destination,
                  stopId |-> stopId]
    IN  IF ~HasStop(routeDirection, stopId) THEN map
        ELSE IF \E g \in 1..Len(map) : map[g].direction = routeDirection.Direction
        THEN [g \in 1..Len(map) |->
                IF map[g].direction = routeDirection.Direction THEN entry ELSE map[g]]
        ELSE Append(map, entry)

\* The body of the inner loop: directionsMap (its values in insertion
\* order) after one candidate id was tried on one direction record.
DirectionsMapSet(map, routeDirection, stopId) ==
    LET entry == [direction |-> routeDirection.Direction,
                  destination |-> routeDirection.Destination,
                  stopId |-> stopId]
    IN  IF /\ HasStop(routeDirection, stopId)
           /\ ~\E g \in 1..Len(map) : map[g].direction = routeDirection.Direction
        THEN Append(map, entry)
        ELSE map

\* for (const stopId of stopIds) ...
RECURSIVE ResolveCandidates(_, _, _)
ResolveCandidates(map, routeDirection, stopIds) ==
    IF stopIds = <<>> THEN map
    ELSE ResolveCandidates(DirectionsMapSet(map, routeDirection, Head(stopIds)),
                           routeDirection, Tail(stopIds))

\* for (const routeDirection of routeStopsData) ...
RECURSIVE ResolveRecords(_, _, _)
ResolveRecords(map, routeStopsData, stopIds) ==
    IF routeStopsData = <<>> THEN map
    ELSE ResolveRecords(ResolveCandidates(map, Head(routeStopsData), stopIds),
                        Tail(routeStopsData), stopIds)

\* The direction resolver: Array.from(directionsMap.values()).
ResolveDirections(routeStopsData, stop) ==
    ResolveRecords(<<>>, routeStopsData, StopCandidates(stop))

\* The rows of the query of getCachedDirections.
CachedDirectionRows(d, agencyCode, routeCode, stopCode) ==
    { [direction |-> x.code, destination |-> x.headsign] :
        x \in { dr \in d.directions :
                  /\ dr.active
                  /\ \E r \in d.routes :
                        <<r.agency, r.code>> = dr.route /\ r.code = routeCode
                  /\ \E sr \in d.stopRoutes :
                        /\ sr.direction = dr.id
                        /\ sr.active
                        /\ \E s \in d.stops :
                              /\ <<s.agency, s.code>> = sr.stop
                              /\ s.code = stopCode
                              /\ s.agency = agencyCode
                              /\ agencyCode \in d.agencies } }

\* The order of the UTF-16 code units of the direction codes.
DirectionCodeRank == ("To Eastmont" :> 1) @@ ("To SF" :> 2)

\* The orders in which ORDER BY d.direction_code may deliver the rows.
DirectionRowOrders(rows) ==
    { f \in [1..Cardinality(rows) -> rows] :
        \A a \in 1..Cardinality(rows), b \in 1..Cardinality(rows) :
            a < b => /\ f[a] # f[b]
                     /\ DirectionCodeRank[f[a].direction]
                          <= DirectionCodeRank[f[b].direction] }

\* What getCachedDirections returns for rows delivered in the order rowSeq.
CachedDirectionsOf(rowSeq, stopCode) ==
    [i \in 1..Len(rowSeq) |->
        [direction |-> rowSeq[i].direction,
         destination |-> rowSeq[i].destination,
         stopId |-> stopCode]]

\* directionsMap of getDirectionsForStop after one destination record.
BartDirectionsMapSet(map, etd, stopId) ==
    IF etd.estimate = <<>> THEN map
    ELSE LET color == etd.estimate[1].color
             key == StringOf(color) \o "-" \o etd.destination
         IN  IF \E g \in 1..Len(map) : map[g].key = key THEN map
             ELSE Append(map, [key |-> key,
                               value |-> [direction |-> StringOf(color) \o " Line",
                                          destination |-> etd.destination,
                                          stopId |-> stopId,
                                          color |-> color]])

RECURSIVE BartDirectionsMap(_, _, _)
BartDirectionsMap(map, etds, stopId) ==
    IF etds = <<>> THEN map
    ELSE BartDirectionsMap(BartDirectionsMapSet(map, Head(etds), stopId),
                           Tail(etds), stopId)

\* BartClient.getDirectionsForStop: the list it returns or the error it
\* throws.
BartGetDirectionsForStop(stopId, resp) ==
    IF resp.kind = "network-error" THEN Thrown("fetch failed")
    ELSE IF ~ResponseOk(resp)
    THEN Thrown("BART API error: " \o StatusString[resp.status] \o " Internal Server Error")
    ELSE IF resp.kind = "bad-json" THEN Thrown("SyntaxError")
    ELSE IF resp.kind = "no-station" THEN Returned(<<>>)
    ELSE IF ~resp.station.hasEtd \/ resp.station.etd = <<>> THEN Returned(<<>>)
    ELSE LET map == BartDirectionsMap(<<>>, resp.station.etd, stopId)
         IN  Returned([g \in 1..Len(map) |-> map[g].value])

\* The JSON bodies of the stop-directions endpoint, with the HTTP status;
\* servedFrom is not part of the body: it records the branch that built it.
DirSuccess(directions, from) ==
    [status |-> 200, success |-> TRUE, error |-> "", directions |-> directions,
     servedFrom |-> from]

DirFailure(status, error) ==
    [status |-> status, success |-> FALSE, error |-> error, directions |-> <<>>,
     servedFrom |-> "error"]

\* The end of the handler without the test of directionsForStop.length.
DirectionsAnswer_NoEmptyCheck(route, stop, directionsForStop, from) ==
    DirSuccess(directionsForStop, from)

\* The end of the handler: not found for an empty list, the list otherwise.
DirectionsAnswer(route, stop, directionsForStop, from) ==
    IF directionsForStop = <<>>
    THEN DirFailure(404, "Stop " \o StringOf(stop) \o " not found on route " \o route)
    ELSE DirSuccess(directionsForStop, from)

\* The handler's AC Transit branch after the cache lookup came back empty.
DirectionsFromUpstream(route, stop, resp) ==
    IF resp.kind = "network-error" THEN DirFailure(500, "fetch failed")
    ELSE IF ~ResponseOk(resp)
    THEN IF resp.status = 404
         THEN DirFailure(404, "Route " \o route \o " not found")
         ELSE DirFailure(500, "AC Transit API error: " \o StatusString[resp.status])
    ELSE IF resp.kind = "bad-json" THEN DirFailure(500, "SyntaxError")
    ELSE DirectionsAnswer(route, stop, ResolveDirections(resp.data, stop), "resolver")

\* The handler's BART branch.
DirectionsFromBart(route, stop, resp) ==
    LET r == BartGetDirectionsForStop(stop, resp)
    IN  IF r.threw THEN DirFailure(500, r.message)
        ELSE DirectionsAnswer(route, stop, r.value, "bart")

NoBartAnswer == [kind |-> "network-error", status |-> 0, station |-> NoStation]

NoRouteAnswer == [kind |-> "network-error", status |-> 0, data |-> NoRouteStops]

\* The databases a stop-directions request may find.
DirDbSetFor(resp) ==
    {SeedDb, CacheOf(StalePayload)}
    \cup (IF resp.kind = "http" /\ resp.status = 200 THEN {CacheOf(resp.data)} ELSE {})

\* A request with the answers the upstreams would give it.
DirCallSet ==
    [agency : {"actransit"}, route : {"NL"}, stop : StopParamSamples,
     response : RouteStopsResponseSet, bart : {NoBartAnswer}]
    \cup [agency : {"muni"}, route : {"NL"}, stop : StopParamSamples,
          response : {NoRouteAnswer}, bart : {NoBartAnswer}]
    \cup [agency : {"bart"}, route : {"NL"}, stop : {<<"E", "M", "B", "R">>},
          response : {NoRouteAnswer}, bart : RailResponseSet]

\* A request is about to reach the stop-directions endpoint.
DirInit ==
    /\ dirCall \in DirCallSet
    /\ db \in DirDbSetFor(dirCall.response)
    /\ dirResponse = Idle
    /\ cacheTasks = <<>>
    /\ predCache = Idle
    /\ adminCall = Idle /\ adminResponse = Idle
    /\ peerCall = Idle /\ peerResponse = Idle
    /\ routeStopsCall = Idle /\ routeStopsResponse = Idle
    /\ busCall = Idle /\ busResult = Idle
    /\ railCall = Idle /\ railResult = Idle
    /\ stopsCall = Idle /\ stopsResponse = Idle
    /\ predCall = Idle /\ predResponse = Idle
    /\ routesCall = Idle /\ routesResponse = Idle

\* Answered from the cache: getCachedDirections returned entries.
DirHandleCached ==
    /\ dirCall # Idle
    /\ dirResponse = Idle
    /\ dirCall.agency # "bart"
    /\ CachedDirectionRows(db, dirCall.agency, dirCall.route, dirCall.stop) # {}
    /\ \E rowSeq \in DirectionRowOrders(
                        CachedDirectionRows(db, dirCall.agency, dirCall.route, dirCall.stop)) :
          dirResponse' = DirSuccess(CachedDirectionsOf(rowSeq, dirCall.stop), "cache")
    /\ UNCHANGED <<dirCall, db, cacheTasks, busCall, busResult, railCall,
                   railResult, stopsCall, stopsResponse,
                   predCall, predResponse, routesCall, routesResponse,
                   predCache, adminCall, adminResponse, peerCall, peerResponse,
                   routeStopsCall, routeStopsResponse>>

\* AC Transit, nothing cached: the route is fetched and resolved.
DirHandleFetch ==
    /\ dirCall # Idle
    /\ dirResponse = Idle
    /\ dirCall.agency = "actransit"
    /\ CachedDirectionRows(db, dirCall.agency, dirCall.route, dirCall.stop) = {}
    /\ dirResponse' = DirectionsFromUpstream(dirCall.route, dirCall.stop, dirCall.response)
    /\ UNCHANGED <<dirCall, db, cacheTasks, busCall, busResult, railCall,
                   railResult, stopsCall, stopsResponse,
                   predCall, predResponse, routesCall, routesResponse,
                   predCache, adminCall, adminResponse, peerCall, peerResponse,
                   routeStopsCall, routeStopsResponse>>

\* BART: the cache is not consulted.
DirHandleBart ==
    /\ dirCall # Idle
    /\ dirResponse = Idle
    /\ dirCall.agency = "bart"
    /\ dirResponse' = DirectionsFromBart(dirCall.route, dirCall.stop, dirCall.bart)
    /\ UNCHANGED <<dirCall, db, cacheTasks, busCall, busResult, railCall,
                   railResult, stopsCall, stopsResponse,
                   predCall, predResponse, routesCall, routesResponse,
                   predCache, adminCall, adminResponse, peerCall, peerResponse,
                   routeStopsCall, routeStopsResponse>>

\* Any other agency, nothing cached.
DirHandleUnsupported ==
    /\ dirCall # Idle
    /\ dirResponse = Idle
    /\ dirCall.agency \notin {"actransit", "bart"}
    /\ CachedDirectionRows(db, dirCall.agency, dirCall.route, dirCall.stop) = {}
    /\ dirResponse' = DirFailure(400, "Only AC Transit and BART are currently supported")
    /\ UNCHANGED <<dirCall, db, cacheTasks, busCall, busResult, railCall,
                   railResult, stopsCall, stopsResponse,
                   predCall, predResponse, routesCall, routesResponse,
                   predCache, adminCall, adminResponse, peerCall, peerResponse,
                   routeStopsCall, routeStopsResponse>>

DirNext == DirHandleCached \/ DirHandleFetch \/ DirHandleBart \/ DirHandleUnsupported

SpecDirections == DirInit /\ [][DirNext]_vars


(***************************************************************************)
(* Properties of the direction resolver                                    *)
(***************************************************************************)
\* The response was built by the resolver loop from the upstream payload.
ResolverRan ==
    /\ dirResponse # Idle
    /\ dirCall.agency = "actransit"
    /\ CachedDirectionRows(db, dirCall.agency, dirCall.route, dirCall.stop) = {}
    /\ dirCall.response.kind = "http"
    /\ dirCall.response.status = 200

DirData == dirCall.response.data

\* The candidate ids of the request, read off the parameter: the pieces
\* between the commas without the blanks around them.
DirCandidates ==
    LET parts == Split(dirCall.stop, ",")
    IN  [i \in 1..Len(parts) |-> Trim(parts[i])]

\* Candidate c is a member of record k's stop set.
CandidateIn(c, k) ==
    \E j \in 1..Len(DirData[k].Stops) :
        NumberToString(DirData[k].Stops[j].StopId) = DirCandidates[c]

\* The records with direction value dv that contain a candidate.
RecordsServing(dv) ==
    {k \in 1..Len(DirData) :
        DirData[k].Direction = dv /\ \E c \in 1..Len(DirCandidates) : CandidateIn(c, k)}

LeastOf(S) == CHOOSE x \in S : \A y \in S : x <= y

\* C8: the resolver emits at most one entry per direction value, and the
\* stopId of an entry is the first candidate, in the order of the
\* comma-separated id, that is a member of the first upstream record which
\* has that direction value and contains a candidate.
C8_FirstCandidateWins ==
    ResolverRan =>
        /\ \A a \in 1..Len(dirResponse.directions), b \in 1..Len(dirResponse.directions) :
              a # b => dirResponse.directions[a].direction
                         # dirResponse.directions[b].direction
        /\ \A e \in 1..Len(dirResponse.directions) :
              LET dv == dirResponse.directions[e].direction
              IN  /\ RecordsServing(dv) # {}
                  /\ LET k == LeastOf(RecordsServing(dv))
                         c == LeastOf({x \in 1..Len(DirCandidates) : CandidateIn(x, k)})
                     IN  dirResponse.directions[e].stopId = DirCandidates[c]

\* A record holding two different candidates was resolved, and the entry
\* of its direction names the first of them.
C8_Witness ==
    /\ ResolverRan
    /\ dirResponse.success
    /\ \E k \in 1..Len(DirData), c1 \in 1..Len(DirCandidates), c2 \in 1..Len(DirCandidates) :
          /\ c1 < c2
          /\ DirCandidates[c1] # DirCandidates[c2]
          /\ CandidateIn(c1, k) /\ CandidateIn(c2, k)
          /\ k = LeastOf(RecordsServing(DirData[k].Direction))
          /\ \E e \in 1..Len(dirResponse.directions) :
                /\ dirResponse.directions[e].direction = DirData[k].Direction
                /\ dirResponse.directions[e].stopId = DirCandidates[c1]

\* The direction values whose stop set contains a candidate.
DirectionsServing ==
    {DirData[k].Direction : k \in {x \in 1..Len(DirData) :
                                     \E c \in 1..Len(DirCandidates) : CandidateIn(c, x)}}

\* C9: for a stop parameter of several ids the resolver returns one entry
\* for every route direction whose stop set contains a candidate, and the
\* stopId of each entry is one candidate that is a member of a stop set of
\* that direction.
C9_MultiIdDirections ==
    (ResolverRan /\ Len(DirCandidates) >= 2 /\ DirectionsServing # {}) =>
        /\ dirResponse.success
        /\ {dirResponse.directions[e].direction : e \in 1..Len(dirResponse.directions)}
             = DirectionsServing
        /\ Len(dirResponse.directions) = Cardinality(DirectionsServing)
        /\ \A e \in 1..Len(dirResponse.directions) :
              \E c \in 1..Len(DirCandidates) :
                  /\ dirResponse.directions[e].stopId = DirCandidates[c]
                  /\ \E k \in 1..Len(DirData) :
                        /\ DirData[k].Direction = dirResponse.directions[e].direction
                        /\ CandidateIn(c, k)

\* "51,52" with 52 in "To SF" and 51 in "To Eastmont" gave two entries
\* with stopIds 52 and 51.
C9_Witness ==
    /\ ResolverRan
    /\ dirCall.stop = <<"5", "1", ",", "5", "2">>
    /\ Len(DirData) = 2
    /\ DirData[1].Direction = "To SF"
    /\ DirData[2].Direction = "To Eastmont"
    /\ CandidateIn(2, 1) /\ ~CandidateIn(1, 1)
    /\ CandidateIn(1, 2) /\ ~CandidateIn(2, 2)
    /\ dirResponse.directions
         = << [direction |-> "To SF", destination |-> DestinationOf["To SF"],
               stopId |-> <<"5", "2">>],
              [direction |-> "To Eastmont", destination |-> DestinationOf["To Eastmont"],
               stopId |-> <<"5", "1">>] >>

\* C10: when no candidate id is a member of any direction of the fetched
\* route the operation answers 404 with success false and the message
\* "Stop ... not found on route ...", and no success response of the
\* endpoint has an empty direction list.
C10_NotFoundWhenNoDirection ==
    /\ (ResolverRan /\ DirectionsServing = {}) =>
          /\ dirResponse.status = 404
          /\ ~dirResponse.success
          /\ dirResponse.error
               = "Stop " \o StringOf(dirCall.stop) \o " not found on route " \o dirCall.route
    /\ (dirResponse # Idle /\ dirResponse.success) => dirResponse.directions # <<>>

\* A route with stops, none of them a candidate, was resolved and the
\* request was answered 404.
C10_Witness ==
    /\ ResolverRan
    /\ DirData # <<>>
    /\ \E k \in 1..Len(DirData) : DirData[k].Stops # <<>>
    /\ DirectionsServing = {}
    /\ dirResponse.status = 404
    /\ ~dirResponse.success


(***************************************************************************)
(* Predictions endpoint: TransitPredictions.handle                         *)
(*                                                                         *)
(* The handler calls the bus or the rail adapter; busCall / busResult and  *)
(* railCall / railResult record the call it made and what came back, and   *)
(* stay idle when it made none.                                            *)
(***************************************************************************)
\* An optional query parameter that is absent.
Undefined == <<"undefined">>

\* The truthiness of an optional string: present and not empty.
Truthy(s) == s # Undefined /\ s # <<>>

\* String.prototype.includes(t)
Includes(s, t) ==
    \E i \in 0..(Len(s) - Len(t)) : SubSeq(s, i + 1, i + Len(t)) = t

\* The characters of the direction strings the bus upstream sends.
CharsOf ==
    ("To San Francisco" :>
        <<"T", "o", " ", "S", "a", "n", " ", "F", "r", "a", "n", "c", "i", "s", "c", "o">>)
    @@ ("To Eastmont Transit Center" :>
        <<"T", "o", " ", "E", "a", "s", "t", "m", "o", "n", "t", " ", "T", "r", "a",
          "n", "s", "i", "t", " ", "C", "e", "n", "t", "e", "r">>)

PredAgencySamples ==
    { <<"a", "c", "t", "r", "a", "n", "s", "i", "t">>,
      <<"A", "C", "T", "r", "a", "n", "s", "i", "t">>,
      <<"b", "a", "r", "t">>,
      <<"B", "A", "R", "T">>,
      <<"m", "u", "n", "i">>,
      <<>> }

\* The direction parameter of bus requests: absent, empty, substrings in
\* either case and one that matches nothing.
BusDirectionSamples ==
    { Undefined, <<>>, <<"s", "a", "n">>,
      <<"E", "A", "S", "T", "M", "O", "N", "T">>, <<"n", "o", "r", "t", "h">> }

\* The direction parameter of rail requests.
RailDirectionSamples ==
    { Undefined, <<>>, <<"n">>, <<"S">>, <<"x">>, <<"n", "o", "r", "t", "h">> }

\* The route parameter of rail requests: line colors separated by commas.
RailRouteSamples ==
    { <<>>, <<"r", "e", "d">>, <<"R", "e", "d", ",", " ", "b", "l", "u", "e">> }

BusRouteSamples == { <<"N", "L">>, <<"5", "1", "A">> }

NoBusAnswer ==
    [kind |-> "network-error", status |-> 0, statusText |-> "", body |-> NoEnvelope]

\* A request with the answers the upstreams would give and the clock and
\* time zone the handler runs under.
PredCallSet ==
    LET bus == {a \in PredAgencySamples : ToLowerCase(a) = <<"a", "c", "t", "r", "a", "n", "s", "i", "t">>}
        rail == {a \in PredAgencySamples : ToLowerCase(a) = <<"b", "a", "r", "t">>}
    IN  [agency : bus, stop : {<<"5", "5", "5", "5", "8">>}, route : BusRouteSamples,
         direction : BusDirectionSamples, busResponse : BusResponseSet,
         railResponse : {NoBartAnswer},
         now : {<<ReferenceMinute - 2, 30000>>}, tzOffset : {0}, clockStep : {0}]
        \cup
        [agency : rail, stop : {<<"e", "m", "b", "r">>}, route : RailRouteSamples,
         direction : RailDirectionSamples, busResponse : {NoBusAnswer},
         railResponse : RailResponseSet,
         now : {<<ReferenceMinute - 2, 30000>>}, tzOffset : {0}, clockStep : {0}]
        \cup
        [agency : PredAgencySamples \ (bus \cup rail),
         stop : {<<"5", "5", "5", "5", "8">>, <<"e", "m", "b", "r">>},
         route : BusRouteSamples \cup RailRouteSamples,
         direction : BusDirectionSamples \cup RailDirectionSamples,
         busResponse : {NoBusAnswer}, railResponse : {NoBartAnswer},
         now : {<<ReferenceMinute - 2, 30000>>}, tzOffset : {0}, clockStep : {0}]

\* The JSON bodies of the predictions endpoint, with the HTTP status.
PredSuccess(predictions) ==
    [status |-> 200, success |-> TRUE, error |-> "", predictions |-> predictions]

PredFailure(status, error) ==
    [status |-> status, success |-> FALSE, error |-> error, predictions |-> <<>>]

\* The switch with a default that falls into the bus case.
AgencyKind_DefaultBus(agency) ==
    IF ToLowerCase(agency) = <<"b", "a", "r", "t">> THEN "rail" ELSE "bus"

\* switch (agency.toLowerCase()): the case taken.
AgencyKind(agency) ==
    IF ToLowerCase(agency) = <<"a", "c", "t", "r", "a", "n", "s", "i", "t">> THEN "bus"
    ELSE IF ToLowerCase(agency) = <<"b", "a", "r", "t">> THEN "rail"
    ELSE "unsupported"

\* The test of the direction parameter without the list of tokens.
RailDirectionOk_AnyValue(direction) == Truthy(direction)

\* !(!direction || !['n', 's'].includes(direction.toLowerCase()))
RailDirectionOk(direction) ==
    /\ Truthy(direction)
    /\ ToLowerCase(direction) \in { <<"n">>, <<"s">> }

\* The predicate of the post-filter without toLowerCase.
PredDirectionMatches_CaseSensitive(p, direction) ==
    Includes(CharsOf[p.direction], direction)

\* p.direction.toLowerCase().includes(direction.toLowerCase())
PredDirectionMatches(p, direction) ==
    Includes(ToLowerCase(CharsOf[p.direction]), ToLowerCase(direction))

\* predictions.filter(p => ...)
RECURSIVE FilterByDirection(_, _)
FilterByDirection(predictions, direction) ==
    IF predictions = <<>> THEN <<>>
    ELSE IF PredDirectionMatches(Head(predictions), direction)
    THEN <<Head(predictions)>> \o FilterByDirection(Tail(predictions), direction)
    ELSE FilterByDirection(Tail(predictions), direction)

\* A catch block that answers an error with an empty success.
PredictionsCatch_Swallow(message) == PredSuccess(<<>>)

\* The catch block: the response for an error with this message.  Of the
\* messages the adapters throw for the sampled upstream texts only the
\* route guard's contains "Only NL route".
PredictionsCatch(message) ==
    IF message = "Only NL route is currently supported"
    THEN PredFailure(400, message)
    ELSE PredFailure(500, "Failed to fetch transit predictions")

\* The arguments and environment of the bus adapter call of a request.
PredBusCall(call) ==
    [stopId |-> StringOf(call.stop), route |-> StringOf(call.route),
     response |-> call.busResponse, now |-> call.now, tzOffset |-> call.tzOffset]

\* route.split(',').map(l => l.trim())
RailLinesOf(route) ==
    LET parts == Split(route, ",")
    IN  [i \in 1..Len(parts) |-> Trim(parts[i])]

\* The arguments and environment of the rail adapter call of a request.
PredRailCall(call) ==
    [station |-> StringOf(ToUpperCase(call.stop)),
     lines |-> RailLinesOf(call.route),
     direction |-> ToLowerCase(call.direction),
     response |-> call.railResponse, now |-> call.now, clockStep |-> call.clockStep]

\* The bus case and what follows the switch: the response for the
\* adapter's result.
PredBusResponse(call, result) ==
    IF result.threw THEN PredictionsCatch(result.message)
    ELSE IF Truthy(call.direction)
    THEN PredSuccess(FilterByDirection(result.value, call.direction))
    ELSE PredSuccess(result.value)

\* The rail case after the parameter checks.
PredRailResponse(call, result) ==
    IF result.threw THEN PredictionsCatch(result.message)
    ELSE PredSuccess(result.value)

\* A request is about to reach the predictions endpoint.
PredInit ==
    /\ predCall \in PredCallSet
    /\ predResponse = Idle
    /\ busCall = Idle /\ busResult = Idle
    /\ railCall = Idle /\ railResult = Idle
    /\ stopsCall = Idle /\ stopsResponse = Idle
    /\ dirCall = Idle /\ dirResponse = Idle
    /\ db = Idle /\ cacheTasks = <<>>
    /\ predCache = Idle
    /\ adminCall = Idle /\ adminResponse = Idle
    /\ peerCall = Idle /\ peerResponse = Idle
    /\ routeStopsCall = Idle /\ routeStopsResponse = Idle
    /\ routesCall = Idle /\ routesResponse = Idle

\* case "actransit"
PredHandleBus ==
    /\ predCall # Idle
    /\ predResponse = Idle
    /\ AgencyKind(predCall.agency) = "bus"
    /\ LET args == PredBusCall(predCall)
           result == AcTransitGetPredictions(args.stopId, args.route, args.response,
                                             args.now, args.tzOffset)
       IN  /\ busCall' = args
           /\ busResult' = result
           /\ predResponse' = PredBusResponse(predCall, result)
    /\ UNCHANGED <<predCall, railCall, railResult, stopsCall, stopsResponse,
                   dirCall, dirResponse, db, cacheTasks, routesCall, routesResponse,
                   predCache, adminCall, adminResponse, peerCall, peerResponse,
                   routeStopsCall, routeStopsResponse>>

\* case "bart", a parameter check fails: no adapter is built.
PredHandleRailRejected ==
    /\ predCall # Idle
    /\ predResponse = Idle
    /\ AgencyKind(predCall.agency) = "rail"
    /\ predCall.route = <<>> \/ ~RailDirectionOk(predCall.direction)
    /\ predResponse' =
          IF predCall.route = <<>>
          THEN PredFailure(400, "Route parameter is required for BART. Specify one or more line colors (e.g., 'red' or 'red,yellow').")
          ELSE PredFailure(400, "Direction parameter is required for BART. Use 'n' for north or 's' for south.")
    /\ UNCHANGED <<predCall, busCall, busResult, railCall, railResult, stopsCall,
                   stopsResponse, dirCall, dirResponse, db, cacheTasks,
                   routesCall, routesResponse,
                   predCache, adminCall, adminResponse, peerCall, peerResponse,
                   routeStopsCall, routeStopsResponse>>

\* case "bart", the parameters pass.
PredHandleRail ==
    /\ predCall # Idle
    /\ predResponse = Idle
    /\ AgencyKind(predCall.agency) = "rail"
    /\ predCall.route # <<>>
    /\ RailDirectionOk(predCall.direction)
    /\ LET args == PredRailCall(predCall)
           result == BartGetPredictions(args.station, args.lines, args.direction,
                                        args.response, args.now, args.clockStep)
       IN  /\ railCall' = args
           /\ railResult' = result
           /\ predResponse' = PredRailResponse(predCall, result)
    /\ UNCHANGED <<predCall, busCall, busResult, stopsCall, stopsResponse,
                   dirCall, dirResponse, db, cacheTasks, routesCall, routesResponse,
                   predCache, adminCall, adminResponse, peerCall, peerResponse,
                   routeStopsCall, routeStopsResponse>>

\* default
PredHandleUnsupported ==
    /\ predCall # Idle
    /\ predResponse = Idle
    /\ AgencyKind(predCall.agency) = "unsupported"
    /\ predResponse' =
          PredFailure(400, "Unsupported agency: " \o StringOf(predCall.agency)
                           \o ". Supported agencies are 'actransit' and 'bart'.")
    /\ UNCHANGED <<predCall, busCall, busResult, railCall, railResult, stopsCall,
                   stopsResponse, dirCall, dirResponse, db, cacheTasks,
                   routesCall, routesResponse,
                   predCache, adminCall, adminResponse, peerCall, peerResponse,
                   routeStopsCall, routeStopsResponse>>

PredNext ==
    PredHandleBus \/ PredHandleRailRejected \/ PredHandleRail \/ PredHandleUnsupported

SpecPredictions == PredInit /\ [][PredNext]_vars


(***************************************************************************)
(* Properties of the predictions endpoint                                  *)
(***************************************************************************)
PredAnswered == predResponse # Idle

LowerAgency == ToLowerCase(predCall.agency)

\* C11: a predictions request whose agency is neither "actransit" nor
\* "bart" (in any case) is answered 400 with the unsupported-agency error,
\* whatever its stop, route and direction, and no adapter is called.
C11_UnsupportedAgency ==
    (PredAnswered /\ LowerAgency \notin { <<"a", "c", "t", "r", "a", "n", "s", "i", "t">>,
                                          <<"b", "a", "r", "t">> }) =>
        /\ predResponse.status = 400
        /\ ~predResponse.success
        /\ predResponse.error
             = "Unsupported agency: " \o StringOf(predCall.agency)
                 \o ". Supported agencies are 'actransit' and 'bart'."
        /\ busCall = Idle /\ busResult = Idle
        /\ railCall = Idle /\ railResult = Idle

\* A request for agency "muni" that names a rail station, a line and a
\* valid direction token was answered 400.
C11_Witness ==
    /\ PredAnswered
    /\ predCall.agency = <<"m", "u", "n", "i">>
    /\ predCall.stop = <<"e", "m", "b", "r">>
    /\ predCall.route = <<"r", "e", "d">>
    /\ predCall.direction = <<"n">>
    /\ predResponse.status = 400

\* C12: a rail request whose direction is absent or, lower-cased, neither
\* "n" nor "s" is answered 400 with a missing-parameter error, and the rail
\* adapter is not called.
C12_RailDirectionRequired ==
    (/\ PredAnswered
     /\ LowerAgency = <<"b", "a", "r", "t">>
     /\ \/ predCall.direction = Undefined
        \/ ToLowerCase(predCall.direction) \notin { <<"n">>, <<"s">> }) =>
        /\ predResponse.status = 400
        /\ ~predResponse.success
        /\ predCall.route # <<>> =>
              predResponse.error
                = "Direction parameter is required for BART. Use 'n' for north or 's' for south."
        /\ railCall = Idle /\ railResult = Idle

\* A rail request with lines and the direction "north" was answered 400
\* while the upstream had departures to report.
C12_Witness ==
    /\ PredAnswered
    /\ LowerAgency = <<"b", "a", "r", "t">>
    /\ predCall.route # <<>>
    /\ predCall.direction = <<"n", "o", "r", "t", "h">>
    /\ predCall.railResponse.kind = "http"
    /\ predCall.railResponse.station.etd # <<>>
    /\ predResponse.status = 400

\* t occurs in s when the case of the letters is disregarded.
ContainsIgnoringCase(s, t) ==
    \E off \in 0..(Len(s) - Len(t)) :
        \A k \in 1..Len(t) : LowerChar(s[off + k]) = LowerChar(t[k])

\* The adapter's predictions whose direction contains the filter, in the
\* adapter's order.
ExpectedBusPredictions ==
    SelectSeq2(busResult.value,
               [i \in 1..Len(busResult.value) |->
                   ContainsIgnoringCase(CharsOf[busResult.value[i].direction],
                                        predCall.direction)])

\* C13: a bus request with a direction filter is answered with exactly the
\* adapter's predictions whose direction contains the filter as a
\* case-insensitive substring, in the adapter's order; a rail request is
\* answered with the adapter's result as it is.
C13_DirectionPostFilter ==
    /\ (/\ PredAnswered
        /\ LowerAgency = <<"a", "c", "t", "r", "a", "n", "s", "i", "t">>
        /\ predCall.direction # Undefined
        /\ HasReturned(busResult)) =>
           /\ predResponse.success
           /\ predResponse.predictions = ExpectedBusPredictions
    /\ (/\ PredAnswered
        /\ LowerAgency = <<"b", "a", "r", "t">>
        /\ HasReturned(railResult)) =>
           /\ predResponse.success
           /\ predResponse.predictions = railResult.value

\* The filter "EASTMONT" kept the second of two predictions, whose
\* direction is "To Eastmont Transit Center", and dropped the first.
C13_Witness ==
    /\ PredAnswered
    /\ predCall.direction = <<"E", "A", "S", "T", "M", "O", "N", "T">>
    /\ HasReturned(busResult)
    /\ Len(busResult.value) = 2
    /\ busResult.value[1].direction = "To San Francisco"
    /\ busResult.value[2].direction = "To Eastmont Transit Center"
    /\ predResponse.predictions = <<busResult.value[2]>>

\* The bus upstream answered the request's adapter call with an envelope
\* that has an error entry.
BusUpstreamError ==
    /\ PredAnswered
    /\ busCall # Idle
    /\ busCall.route = "NL"
    /\ busCall.response.kind = "http"
    /\ ResponseOk(busCall.response)
    /\ Len(busCall.response.body.error) >= 1

\* C14: when the bus upstream returns a structured error payload, the
\* predictions endpoint answers 400 with an error string that carries the
\* upstream message unchanged.
C14_UpstreamErrorForwarded ==
    BusUpstreamError =>
        /\ predResponse.status = 400
        /\ ~predResponse.success
        /\ predResponse.error
             \in { busCall.response.body.error[1].msg,
                   "AC Transit API error: " \o busCall.response.body.error[1].msg }

\* What the code answers to a structured upstream error: 500 with a fixed
\* text.
UpstreamErrorAnsweredGenerically ==
    BusUpstreamError =>
        /\ predResponse.status = 500
        /\ ~predResponse.success
        /\ predResponse.error = "Failed to fetch transit predictions"

\* Something failed while the request was handled: a parameter check, an
\* upstream call, or the parse of what the upstream sent.
PredSomethingFailed ==
    \/ LowerAgency \notin { <<"a", "c", "t", "r", "a", "n", "s", "i", "t">>,
                            <<"b", "a", "r", "t">> }
    \/ /\ LowerAgency = <<"a", "c", "t", "r", "a", "n", "s", "i", "t">>
       /\ \/ predCall.route # <<"N", "L">>
          \/ predCall.busResponse.kind # "http"
          \/ ~ResponseOk(predCall.busResponse)
          \/ predCall.busResponse.body.error # <<>>
          \/ \E i \in 1..Len(predCall.busResponse.body.prd) :
                parseAcTransitDateTime(predCall.busResponse.body.prd[i].prdtm,
                                       predCall.tzOffset) = NaN
    \/ /\ LowerAgency = <<"b", "a", "r", "t">>
       /\ \/ predCall.route = <<>>
          \/ predCall.direction = Undefined
          \/ ToLowerCase(predCall.direction) \notin { <<"n">>, <<"s">> }
          \/ predCall.railResponse.kind \in {"network-error", "bad-json"}
          \/ ~ResponseOk(predCall.railResponse)
          \/ railResult # Idle /\ railResult.threw

\* C15: every predictions request ends either in a success response that
\* carries the whole list the adapter resolved, or in a response with
\* success false and a non-empty error; when a parameter check, an upstream
\* call or a parse fails, the response is not a success.
C15_SuccessOrError ==
    PredAnswered =>
        /\ \/ /\ predResponse.success
              /\ predResponse.status = 200
              /\ predResponse.error = ""
              /\ \/ /\ HasReturned(busResult)
                    /\ Len(busResult.value) = Len(busCall.response.body.prd)
                 \/ HasReturned(railResult)
           \/ /\ ~predResponse.success
              /\ predResponse.status \in {400, 500}
              /\ predResponse.error # ""
              /\ predResponse.predictions = <<>>
        /\ PredSomethingFailed => ~predResponse.success

\* An envelope of two predictions, the second with a timestamp that does
\* not parse, was answered with an error and no prediction.
C15_Witness ==
    /\ PredAnswered
    /\ busCall # Idle
    /\ busCall.route = "NL"
    /\ busCall.response.kind = "http"
    /\ ResponseOk(busCall.response)
    /\ busCall.response.body.error = <<>>
    /\ Len(busCall.response.body.prd) = 2
    /\ parseAcTransitDateTime(busCall.response.body.prd[1].prdtm, busCall.tzOffset) # NaN
    /\ parseAcTransitDateTime(busCall.response.body.prd[2].prdtm, busCall.tzOffset) = NaN
    /\ ~predResponse.success
    /\ predResponse.error # ""


(***************************************************************************)
(* Properties of the time normalizer and of the rail adapter's empty       *)
(* answers                                                                 *)
(***************************************************************************)
\* s has the fixed-width layout "yyyyMMdd HH:mm".
MatchesLayout(s) ==
    /\ Len(s) = 14
    /\ \A i \in {1, 2, 3, 4, 5, 6, 7, 8, 10, 11, 13, 14} : s[i] \in Digits
    /\ s[9] = " "
    /\ s[12] = ":"

\* The number written by the digits s[a..b].
FieldOf(s, a, b) == DigitsValue(SubSeq(s, a, b), 0)

\* The first Sunday on or after day d (days since 1970-01-01, a Thursday).
SundayOnOrAfter(d) == d + ((7 - ((d + 4) % 7)) % 7)

\* US Pacific daylight-saving time holds on calendar day d of year y: from
\* the second Sunday of March up to, not including, the first Sunday of
\* November.
PacificDst(y, d) ==
    /\ SundayOnOrAfter(MakeDay(y, 2, 1)) + 7 <= d
    /\ d < SundayOnOrAfter(MakeDay(y, 10, 1))

\* The instant a timestamp of the layout denotes in US Pacific time.
PacificInstant(s) ==
    LET y == FieldOf(s, 1, 4)
        d == MakeDay(y, FieldOf(s, 5, 6) - 1, FieldOf(s, 7, 8))
    IN  << d * MinutesPerDay + FieldOf(s, 10, 11) * 60 + FieldOf(s, 13, 14)
             + (IF PacificDst(y, d) THEN 7 * 60 ELSE 8 * 60),
           0 >>

\* C16: the time normalizer maps a bus timestamp "yyyyMMdd HH:mm" to the
\* instant with UTC offset -07:00 when the date lies in [second Sunday of
\* March, first Sunday of November) and -08:00 otherwise, whatever the time
\* zone of the executing environment.
C16_PacificTime ==
    (HasReturned(busResult) /\ busCall.response.kind = "http") =>
        \A i \in 1..Len(busResult.value) :
            MatchesLayout(busCall.response.body.prd[i].prdtm) =>
                ParseISO(busResult.value[i].arrivalTime)
                  = PacificInstant(busCall.response.body.prd[i].prdtm)

\* What the code computes: the fields read as local time of the executing
\* environment.
TimeReadAsEnvironmentLocal ==
    (HasReturned(busResult) /\ busCall.response.kind = "http") =>
        \A i \in 1..Len(busResult.value) :
            LET s == busCall.response.body.prd[i].prdtm
            IN  MatchesLayout(s) =>
                    ParseISO(busResult.value[i].arrivalTime)
                      = << MakeDay(FieldOf(s, 1, 4), FieldOf(s, 5, 6) - 1, FieldOf(s, 7, 8))
                               * MinutesPerDay
                             + FieldOf(s, 10, 11) * 60 + FieldOf(s, 13, 14)
                             - busCall.tzOffset,
                           0 >>

\* C17: the time normalizer fails for every input that does not have the
\* layout "yyyyMMdd HH:mm" and returns no instant for it: a call of the
\* adapter that returns predictions has met only timestamps of the layout.
C17_ParseErrorOffLayout ==
    (HasReturned(busResult) /\ busCall.response.kind = "http") =>
        \A i \in 1..Len(busCall.response.body.prd) :
            MatchesLayout(busCall.response.body.prd[i].prdtm)

\* The inputs off the layout that the code does reject are those for which
\* the Date it builds is invalid.
OffLayoutRejectedWhenInvalid ==
    (busResult # Idle /\ BusEnvelopeReceived /\ busCall.response.body.error = <<>>) =>
        (busResult.threw <=>
            \E i \in 1..Len(busCall.response.body.prd) :
                parseAcTransitDateTime(busCall.response.body.prd[i].prdtm,
                                       busCall.tzOffset) = NaN)

\* The upstream answered with a success status and reported no station
\* record, or a station without departures.
RailNothingScheduled ==
    /\ railResult # Idle
    /\ ResponseOk(railCall.response)
    /\ \/ railCall.response.kind = "no-station"
       \/ /\ railCall.response.kind = "http"
          /\ \/ ~railCall.response.station.hasEtd
             \/ \A k \in 1..Len(railCall.response.station.etd) :
                   railCall.response.station.etd[k].estimate = <<>>

\* C18: the rail adapter returns the empty list, and no error, whenever the
\* upstream response is successful but reports no station record or no
\* scheduled departure for the station.
C18_RailEmptyNotError ==
    RailNothingScheduled =>
        /\ ~railResult.threw
        /\ railResult.value = <<>>

\* A station record without an etd key was answered with the empty list.
C18_Witness ==
    /\ RailNothingScheduled
    /\ railCall.response.kind = "http"
    /\ ~railCall.response.station.hasEtd
    /\ railResult = Returned(<<>>)


(***************************************************************************)
(* Routes.handle (src/endpoints/importACTransitData.ts): the routes of an  *)
(* agency, from D1 while the agency row is younger than a day, else from   *)
(* /transit/routes, with the cached rows as the answer when the fetch      *)
(* fails.  The worker's clock is UTC, so new Date(updated_at) is the       *)
(* instant CURRENT_TIMESTAMP wrote.                                        *)
(***************************************************************************)
MaxRoutes == 2

\* Records of /transit/routes; Name is "" when the upstream gives none.
RouteSamples ==
    { [RouteId |-> "6", Name |-> ""],
      [RouteId |-> "51A", Name |-> "Broadway - Santa Clara"],
      [RouteId |-> "F", Name |-> ""],
      [RouteId |-> "NL", Name |-> "Transbay Night Line"] }

RouteCodeChars ==
    ("6" :> <<"6">>) @@ ("51A" :> <<"5", "1", "A">>) @@ ("F" :> <<"F">>)
    @@ ("NL" :> <<"N", "L">>)

\* The order of the route codes as texts; localeCompare and the BINARY
\* collation agree on digits and capital letters.
RouteCodeRank == ("51A" :> 1) @@ ("6" :> 2) @@ ("F" :> 3) @@ ("NL" :> 4)

RoutesDataSet == SeqsUpTo(RouteSamples, MaxRoutes)

NoRoutes == <<>>

\* What fetch gives the routes endpoint for /transit/routes.
RoutesResponseSet ==
    [kind : {"network-error"}, status : {0}, data : {NoRoutes}]
    \cup [kind : {"http"}, status : {500, 503}, data : {NoRoutes}]
    \cup [kind : {"http"}, status : {200}, data : RoutesDataSet]

\* The element routesData.map builds.
TransformRoute(route) ==
    [routeCode |-> route.RouteId,
     routeName |-> IF route.Name # "" THEN route.Name ELSE route.RouteId,
     routeType |-> "bus",
     active |-> "true"]

\* The comparator of the sort: numbers first, by their value, then texts.
CompareRoutes(a, b) ==
    LET aNum == ParseInt(RouteCodeChars[a.routeCode])
        bNum == ParseInt(RouteCodeChars[b.routeCode])
    IN  IF aNum # NaN /\ bNum # NaN THEN aNum[1] - bNum[1]
        ELSE IF aNum # NaN THEN -1
        ELSE IF bNum # NaN THEN 1
        ELSE RouteCodeRank[a.routeCode] - RouteCodeRank[b.routeCode]

RECURSIVE InsertRoute(_, _)
InsertRoute(sorted, x) ==
    IF sorted = <<>> THEN <<x>>
    ELSE IF CompareRoutes(x, Head(sorted)) < 0 THEN <<x>> \o sorted
    ELSE <<Head(sorted)>> \o InsertRoute(Tail(sorted), x)

\* Array.prototype.sort with the comparator; the sort is stable.
RECURSIVE SortRoutes(_)
SortRoutes(l) ==
    IF l = <<>> THEN <<>>
    ELSE InsertRoute(SortRoutes(SubSeq(l, 1, Len(l) - 1)), l[Len(l)])

\* routesData.map(...).sort(...)
RoutesFromUpstream(routesData) ==
    SortRoutes([i \in 1..Len(routesData) |-> TransformRoute(routesData[i])])

\* INSERT INTO agencies (code, name, active): updated_at takes its default.
InsertAgency(d, agencyCode, at) ==
    [d EXCEPT !.agencies = @ \cup {agencyCode},
              !.agencyUpdatedAt = (agencyCode :> SqlTimestamp(at)) @@ @]

\* The rows of SELECT ... FROM routes WHERE agency_id = ? AND active = TRUE.
CachedRouteRows(d, agencyCode) ==
    {r \in d.routes : r.agency = agencyCode /\ r.active}

\* The first key of the ORDER BY: the leading number of a code that starts
\* with a digit.
RouteSqlKey(code) ==
    IF Head(RouteCodeChars[code]) \in Digits
    THEN ParseInt(RouteCodeChars[code])[1]
    ELSE 999999

RouteSqlBefore(a, b) ==
    \/ RouteSqlKey(a.code) < RouteSqlKey(b.code)
    \/ /\ RouteSqlKey(a.code) = RouteSqlKey(b.code)
       /\ RouteCodeRank[a.code] < RouteCodeRank[b.code]

\* A row as D1 hands it over: TRUE was stored as the integer 1.
CachedRouteOf(r) ==
    [routeCode |-> r.code, routeName |-> r.name, routeType |-> r.type, active |-> "1"]

\* The rows in the order of the ORDER BY; (agency_id, route_code) is unique,
\* so the order is total.
CachedRoutesOf(rows) ==
    LET n == Cardinality(rows)
        f == CHOOSE g \in [1..n -> rows] :
                \A i \in 1..n, j \in 1..n : i < j => RouteSqlBefore(g[i], g[j])
    IN  [i \in 1..n |-> CachedRouteOf(f[i])]

\* Routes.getCachedRoutes: what it returns, and the database it leaves.
GetCachedRoutes(d, agencyCode, now) ==
    IF agencyCode \notin d.agencies
    THEN [fresh |-> FALSE, routes |-> NoRoutes, db |-> InsertAgency(d, agencyCode, now)]
    ELSE IF now - d.agencyUpdatedAt[agencyCode] > 24 * 3600000
    THEN [fresh |-> FALSE, routes |-> NoRoutes, db |-> d]
    ELSE [fresh |-> now - d.agencyUpdatedAt[agencyCode] < 24 * 3600000,
          routes |-> CachedRoutesOf(CachedRouteRows(d, agencyCode)),
          db |-> d]

\* A cacheRoutes call at its start.  pc is the statement it awaits next, k
\* the route it is at, at the time CURRENT_TIMESTAMP gives its statements.
NewRoutesTask(agencyCode, routes, at) ==
    [kind |-> "routes", agencyCode |-> agencyCode, routes |-> routes, at |-> at,
     pc |-> "agency", k |-> 1]

\* INSERT INTO routes ... ON CONFLICT(agency_id, route_code) DO UPDATE.
UpsertRoute(d, agencyCode, route, at) ==
    [d EXCEPT !.routes =
        {r \in d.routes : ~(r.agency = agencyCode /\ r.code = route.routeCode)}
        \cup {[agency |-> agencyCode, code |-> route.routeCode,
               name |-> route.routeName, type |-> route.routeType,
               active |-> TRUE, updatedAt |-> SqlTimestamp(at)]}]

\* One statement of Routes.cacheRoutes.
CacheRoutesStep(d, t) ==
    IF t.pc = "agency"
    THEN [db |-> IF t.agencyCode \in d.agencies THEN d
                 ELSE InsertAgency(d, t.agencyCode, t.at),
          task |-> [t EXCEPT !.pc = "deactivate"]]
    ELSE IF t.pc = "deactivate"
    THEN [db |-> [d EXCEPT !.routes =
                    {IF r.agency = t.agencyCode THEN [r EXCEPT !.active = FALSE] ELSE r :
                        r \in d.routes}],
          task |-> [t EXCEPT !.pc = IF Len(t.routes) = 0 THEN "touch" ELSE "upsert"]]
    ELSE IF t.pc = "upsert"
    THEN [db |-> UpsertRoute(d, t.agencyCode, t.routes[t.k], t.at),
          task |-> IF t.k < Len(t.routes) THEN [t EXCEPT !.k = t.k + 1]
                   ELSE [t EXCEPT !.pc = "touch"]]
    ELSE [db |-> [d EXCEPT !.agencyUpdatedAt[t.agencyCode] = SqlTimestamp(t.at)],
          task |-> [t EXCEPT !.pc = "done"]]

RECURSIVE RunRoutesTask(_, _)
RunRoutesTask(d, t) ==
    IF t.pc = "done" THEN d
    ELSE RunRoutesTask(CacheRoutesStep(d, t).db, CacheRoutesStep(d, t).task)

\* The database after a payload of /transit/routes was cached into the
\* seed, at the time the seed was loaded.
RoutesCacheOf(routesData) ==
    RunRoutesTask(SeedDb, NewRoutesTask("actransit", RoutesFromUpstream(routesData), 0))

\* A database before the seed was loaded.
EmptyDb ==
    [agencies |-> {}, agencyUpdatedAt |-> [a \in {} |-> 0], routes |-> {},
     directions |-> {}, stops |-> {}, stopRoutes |-> {}]

\* A payload cached earlier, which the upstream need not report any more.
StaleRoutes ==
    << [RouteId |-> "NL", Name |-> "Transbay Night Line"],
       [RouteId |-> "6", Name |-> ""] >>

RoutesDbSetFor(resp) ==
    {SeedDb, EmptyDb, RoutesCacheOf(StaleRoutes)}
    \cup (IF resp.kind = "http" /\ resp.status = 200
          THEN {RoutesCacheOf(resp.data)} ELSE {})

\* The clock of a request: one hour, exactly 24 hours and 25 hours after
\* the agency row was written.
RoutesNowSamples == {3600000, 86400000, 90000000}

RoutesCallSet ==
    [agency : Agencies, response : RoutesResponseSet, now : RoutesNowSamples]

\* The JSON bodies of the routes endpoint, with the HTTP status; fetched is
\* not part of the body: it records whether /transit/routes was asked.
RoutesSuccess(agency, routes, cached, fresh, fetched) ==
    [status |-> 200, success |-> TRUE, error |-> "", agency |-> agency,
     routes |-> routes, cached |-> cached, fresh |-> fresh, fetched |-> fetched]

RoutesFailure(status, error, fetched) ==
    [status |-> status, success |-> FALSE, error |-> error, agency |-> "",
     routes |-> NoRoutes, cached |-> FALSE, fresh |-> FALSE, fetched |-> fetched]

\* The cache is usable as a fresh answer.
RoutesFresh(cachedRoutes) == cachedRoutes.fresh /\ Len(cachedRoutes.routes) > 0

RoutesFetchFailed(resp) == resp.kind = "network-error" \/ ~ResponseOk(resp)

\* The catch of the fetch: the cached routes if there are any, else the
\* error goes to the outer catch.
RoutesCatch(agency, cachedRoutes, resp) ==
    IF Len(cachedRoutes.routes) > 0
    THEN RoutesSuccess(agency, cachedRoutes.routes, TRUE, FALSE, TRUE)
    ELSE IF resp.kind = "network-error" THEN RoutesFailure(500, "fetch failed", TRUE)
    ELSE RoutesFailure(500, "AC Transit API error: " \o StatusString[resp.status], TRUE)

\* A request is about to reach the routes endpoint.
RoutesInit ==
    /\ routesCall \in RoutesCallSet
    /\ db \in RoutesDbSetFor(routesCall.response)
    /\ routesResponse = Idle
    /\ cacheTasks = <<>>
    /\ predCache = Idle
    /\ adminCall = Idle /\ adminResponse = Idle
    /\ peerCall = Idle /\ peerResponse = Idle
    /\ routeStopsCall = Idle /\ routeStopsResponse = Idle
    /\ busCall = Idle /\ busResult = Idle
    /\ railCall = Idle /\ railResult = Idle
    /\ stopsCall = Idle /\ stopsResponse = Idle
    /\ dirCall = Idle /\ dirResponse = Idle
    /\ predCall = Idle /\ predResponse = Idle

\* Routes.handle answered from a cache younger than 24 hours.
RoutesHandleFresh ==
    /\ routesCall # Idle
    /\ routesResponse = Idle
    /\ LET cachedRoutes == GetCachedRoutes(db, routesCall.agency, routesCall.now)
       IN  /\ RoutesFresh(cachedRoutes)
           /\ routesResponse' =
                 RoutesSuccess(routesCall.agency, cachedRoutes.routes, TRUE, TRUE, FALSE)
           /\ db' = cachedRoutes.db
    /\ UNCHANGED <<routesCall, cacheTasks, busCall, busResult, railCall, railResult,
                   stopsCall, stopsResponse, dirCall, dirResponse, predCall, predResponse,
                   predCache, adminCall, adminResponse, peerCall, peerResponse,
                   routeStopsCall, routeStopsResponse>>

\* Routes.handle for an agency other than "actransit" without a fresh cache.
RoutesHandleOtherAgency ==
    /\ routesCall # Idle
    /\ routesResponse = Idle
    /\ routesCall.agency # "actransit"
    /\ LET cachedRoutes == GetCachedRoutes(db, routesCall.agency, routesCall.now)
       IN  /\ ~RoutesFresh(cachedRoutes)
           /\ routesResponse' =
                 IF Len(cachedRoutes.routes) > 0
                 THEN RoutesSuccess(routesCall.agency, cachedRoutes.routes,
                                    TRUE, FALSE, FALSE)
                 ELSE RoutesFailure(400, "Only AC Transit is currently supported", FALSE)
           /\ db' = cachedRoutes.db
    /\ UNCHANGED <<routesCall, cacheTasks, busCall, busResult, railCall, railResult,
                   stopsCall, stopsResponse, dirCall, dirResponse, predCall, predResponse,
                   predCache, adminCall, adminResponse, peerCall, peerResponse,
                   routeStopsCall, routeStopsResponse>>

\* Routes.handle fetched the routes: they are the answer and are handed to
\* waitUntil for caching.
RoutesHandleFetched ==
    /\ routesCall # Idle
    /\ routesResponse = Idle
    /\ routesCall.agency = "actransit"
    /\ ~RoutesFetchFailed(routesCall.response)
    /\ LET cachedRoutes == GetCachedRoutes(db, routesCall.agency, routesCall.now)
           routes == RoutesFromUpstream(routesCall.response.data)
       IN  /\ ~RoutesFresh(cachedRoutes)
           /\ routesResponse' = RoutesSuccess(routesCall.agency, routes, FALSE, TRUE, TRUE)
           /\ cacheTasks' =
                 Append(cacheTasks, NewRoutesTask(routesCall.agency, routes, routesCall.now))
           /\ db' = cachedRoutes.db
    /\ UNCHANGED <<routesCall, busCall, busResult, railCall, railResult,
                   stopsCall, stopsResponse, dirCall, dirResponse, predCall, predResponse,
                   predCache, adminCall, adminResponse, peerCall, peerResponse,
                   routeStopsCall, routeStopsResponse>>

\* Routes.handle when the fetch failed.
RoutesHandleFetchFailed ==
    /\ routesCall # Idle
    /\ routesResponse = Idle
    /\ routesCall.agency = "actransit"
    /\ RoutesFetchFailed(routesCall.response)
    /\ LET cachedRoutes == GetCachedRoutes(db, routesCall.agency, routesCall.now)
       IN  /\ ~RoutesFresh(cachedRoutes)
           /\ routesResponse' =
                 RoutesCatch(routesCall.agency, cachedRoutes, routesCall.response)
           /\ db' = cachedRoutes.db
    /\ UNCHANGED <<routesCall, cacheTasks, busCall, busResult, railCall, railResult,
                   stopsCall, stopsResponse, dirCall, dirResponse, predCall, predResponse,
                   predCache, adminCall, adminResponse, peerCall, peerResponse,
                   routeStopsCall, routeStopsResponse>>

\* A cacheRoutes call in flight runs its next statement.
CacheRoutes ==
    \E i \in 1..Len(cacheTasks) :
        /\ cacheTasks[i].kind = "routes"
        /\ cacheTasks[i].pc \notin {"done", "failed"}
        /\ db' = CacheRoutesStep(db, cacheTasks[i]).db
        /\ cacheTasks' = [cacheTasks EXCEPT ![i] = CacheRoutesStep(db, cacheTasks[i]).task]
        /\ UNCHANGED <<routesCall, routesResponse, busCall, busResult, railCall,
                       railResult, stopsCall, stopsResponse, dirCall, dirResponse,
                       predCall, predResponse,
                   predCache, adminCall, adminResponse, peerCall, peerResponse,
                   routeStopsCall, routeStopsResponse>>

RoutesNext ==
    \/ RoutesHandleFresh
    \/ RoutesHandleOtherAgency
    \/ RoutesHandleFetched
    \/ RoutesHandleFetchFailed
    \/ CacheRoutes

SpecRoutes == RoutesInit /\ [][RoutesNext]_vars


(***************************************************************************)
(* Properties of the metadata caches                                       *)
(***************************************************************************)
RoutesAnswered == routesResponse # Idle

\* /transit/routes was asked and the fetch failed.
RoutesUpstreamFailed ==
    /\ RoutesAnswered
    /\ routesResponse.fetched
    /\ RoutesFetchFailed(routesCall.response)

\* C19: when the call of /transit/routes fails and the database holds
\* routes of the agency cached earlier, whatever their age, the answer is
\* success true with those routes, cached true and fresh false.
C19_StaleRoutesOnFailure ==
    (RoutesUpstreamFailed /\ CachedRouteRows(db, routesCall.agency) # {})
        => /\ routesResponse.success
           /\ routesResponse.cached
           /\ ~routesResponse.fresh
           /\ routesResponse.routes =
                 CachedRoutesOf(CachedRouteRows(db, routesCall.agency))

\* What the code does: after a failed fetch the cached routes are the
\* answer only when the agency row is exactly 24 hours old; older rows
\* were dropped by getCachedRoutes and the answer is the error with 500.
StaleRoutesOnlyAtOneDay ==
    (RoutesUpstreamFailed /\ CachedRouteRows(db, routesCall.agency) # {})
        => IF routesCall.now - db.agencyUpdatedAt[routesCall.agency] = 24 * 3600000
           THEN /\ routesResponse.success
                /\ routesResponse.cached
                /\ ~routesResponse.fresh
                /\ routesResponse.routes =
                      CachedRoutesOf(CachedRouteRows(db, routesCall.agency))
           ELSE /\ ~routesResponse.success
                /\ routesResponse.status = 500

\* The cached routes of the agency exist and all are older than 24 hours.
RoutesCacheOlderThanDay ==
    /\ CachedRouteRows(db, routesCall.agency) # {}
    /\ \A r \in CachedRouteRows(db, routesCall.agency) :
          routesCall.now - r.updatedAt > 24 * 3600000

\* The cached stops of the route exist and all are older than 24 hours.
StopsCacheOlderThanDay ==
    /\ CachedStopRows(db, stopsCall.agency, stopsCall.route) # {}
    /\ \A s \in db.stops :
          (s.agency = stopsCall.agency /\ s.active)
              => stopsCall.now - s.updatedAt > 24 * 3600000

\* The routes half of C20, which the code keeps: cached routes older than
\* 24 hours are not the answer while /transit/routes answers.
RoutesOlderThanDayRefetched ==
    (/\ RoutesAnswered
     /\ ~RoutesFetchFailed(routesCall.response)
     /\ RoutesCacheOlderThanDay)
        => /\ routesResponse.fetched
           /\ ~routesResponse.cached

\* C20: on the routes endpoint and on the stops endpoint, cached entries
\* older than 24 hours are not the answer while the upstream answers: the
\* request fetches from the upstream.
C20_OlderThanDayRefetched ==
    /\ RoutesOlderThanDayRefetched
    /\ (/\ stopsResponse # Idle
        /\ stopsCall.response.kind = "http"
        /\ ResponseOk(stopsCall.response)
        /\ StopsCacheOlderThanDay)
           => stopsResponse.servedFrom = "upstream"

\* What the code does on the stops endpoint: cached stops are the answer
\* whatever their age, and the upstream is not asked.
CachedStopsServedAtAnyAge ==
    (/\ stopsResponse # Idle
     /\ stopsCall.response.kind = "http"
     /\ ResponseOk(stopsCall.response)
     /\ StopsCacheOlderThanDay)
        => stopsResponse.servedFrom = "cache"


(***************************************************************************)
(* Frame of the routes endpoint                                            *)
(***************************************************************************)
\* The step in which Routes.handle answers with an error.
RoutesErrorStep ==
    /\ routesResponse = Idle
    /\ routesResponse' # Idle
    /\ ~routesResponse'.success

\* C29: a routes request that ends in an error response leaves the
\* metadata database as it was: no row is inserted or modified.
C29_ErrorLeavesDbUnchanged == [][RoutesErrorStep => db' = db]_vars

\* What the code does: getCachedRoutes has inserted the agency row of an
\* agency it did not find before the handler decides on the error.
RoutesErrorInsertsMissingAgency ==
    [][RoutesErrorStep =>
          db' = IF routesCall.agency \in db.agencies THEN db
                ELSE InsertAgency(db, routesCall.agency, routesCall.now)]_vars


(***************************************************************************)
(* The route check of the bus adapter, as the predictions endpoint shows it *)
(***************************************************************************)
\* The adapter call a predictions request made, if it made one.
PredAdapterResult == IF busCall # Idle THEN busResult ELSE railResult

PredAdapterCalled == PredAnswered /\ (busCall # Idle \/ railCall # Idle)

NoEntry == [present |-> FALSE, age |-> Undefined, predictions |-> <<>>]

\* The "age" header of a cached response: absent, empty, a number of
\* seconds, or something that is no number.
AgeSamples ==
    { Undefined, <<>>, <<"0">>, <<"9">>, <<"1", "0">>, <<"1", "5">>, <<"x">> }

\* The predictions of a body stored earlier, before any direction filter.
CachedPredictionSamples ==
    { <<>>,
      AcTransitGetPredictions("55558", "NL",
          [kind |-> "http", status |-> 200, statusText |-> "OK",
           body |-> [hasPrd |-> TRUE,
                     prd |-> << [stpnm |-> "Uptown Transit Center", stpid |-> "55558",
                                 vid |-> "6104", rt |-> "NL",
                                 rtdir |-> "To San Francisco",
                                 prdtm |-> <<"2", "0", "2", "4", "0", "6", "1", "5", " ",
                                             "1", "8", ":", "3", "2">>],
                                [stpnm |-> "Uptown Transit Center", stpid |-> "55558",
                                 vid |-> "6104", rt |-> "NL",
                                 rtdir |-> "To Eastmont Transit Center",
                                 prdtm |-> <<"2", "0", "2", "4", "0", "6", "1", "5", " ",
                                             "1", "8", ":", "3", "2">>] >>,
                     hasError |-> FALSE, error |-> <<>>]],
          <<ReferenceMinute - 2, 25000>>, 0).value }

PredCacheSet ==
    {NoEntry}
    \cup [present : {TRUE}, age : AgeSamples, predictions : CachedPredictionSamples]

\* A request to the cached variant: "actransit" is its only agency.
CachedPredCallSet ==
    LET bus == {a \in PredAgencySamples :
                  ToLowerCase(a) = <<"a", "c", "t", "r", "a", "n", "s", "i", "t">>}
    IN  [agency : bus, stop : {<<"5", "5", "5", "5", "8">>}, route : BusRouteSamples,
         direction : BusDirectionSamples, busResponse : BusResponseSet,
         now : {<<ReferenceMinute - 2, 30000>>}, tzOffset : {0}]
        \cup
        [agency : PredAgencySamples \ bus, stop : {<<"5", "5", "5", "5", "8">>},
         route : BusRouteSamples, direction : BusDirectionSamples,
         busResponse : {NoBusAnswer},
         now : {<<ReferenceMinute - 2, 30000>>}, tzOffset : {0}]

\* A guard that takes an entry of exactly 10 seconds as fresh.
PredCacheHit_Inclusive(entry) ==
    /\ entry.present
    /\ Truthy(entry.age)
    /\ ParseInt(entry.age) # NaN
    /\ ParseInt(entry.age)[1] <= 10

\* cachedResponse && age && parseInt(age) < 10
PredCacheHit(entry) ==
    /\ entry.present
    /\ Truthy(entry.age)
    /\ ParseInt(entry.age) # NaN
    /\ ParseInt(entry.age)[1] < 10

\* The cached body, with the direction filter applied to it.
PredFromCache(call, entry) ==
    IF Truthy(call.direction)
    THEN PredSuccess(FilterByDirection(entry.predictions, call.direction))
    ELSE PredSuccess(entry.predictions)

\* waitUntil(cache.put(...)) at its start: the body it will store.
NewPutTask(predictions) == [kind |-> "put", predictions |-> predictions, pc |-> "put"]

\* A request is about to reach the cached predictions endpoint.
CachedPredInit ==
    /\ predCall \in CachedPredCallSet
    /\ predCache \in PredCacheSet
    /\ predResponse = Idle
    /\ busCall = Idle /\ busResult = Idle
    /\ railCall = Idle /\ railResult = Idle
    /\ stopsCall = Idle /\ stopsResponse = Idle
    /\ dirCall = Idle /\ dirResponse = Idle
    /\ db = Idle /\ cacheTasks = <<>>
    /\ routesCall = Idle /\ routesResponse = Idle
    /\ adminCall = Idle /\ adminResponse = Idle
    /\ peerCall = Idle /\ peerResponse = Idle
    /\ routeStopsCall = Idle /\ routeStopsResponse = Idle

\* The entry is fresh: its body is the answer and no adapter is built.
CachedPredHandleHit ==
    /\ predCall # Idle
    /\ predResponse = Idle
    /\ PredCacheHit(predCache)
    /\ predResponse' = PredFromCache(predCall, predCache)
    /\ UNCHANGED <<predCall, predCache, busCall, busResult, railCall, railResult,
                   stopsCall, stopsResponse, dirCall, dirResponse, db, cacheTasks,
                   routesCall, routesResponse, adminCall, adminResponse,
                   peerCall, peerResponse,
                   routeStopsCall, routeStopsResponse>>

\* case "actransit" without a fresh entry: the adapter is called and its
\* unfiltered answer is handed to waitUntil(cache.put).
CachedPredHandleBus ==
    /\ predCall # Idle
    /\ predResponse = Idle
    /\ ~PredCacheHit(predCache)
    /\ ToLowerCase(predCall.agency) = <<"a", "c", "t", "r", "a", "n", "s", "i", "t">>
    /\ LET args == PredBusCall(predCall)
           result == AcTransitGetPredictions(args.stopId, args.route, args.response,
                                             args.now, args.tzOffset)
       IN  /\ busCall' = args
           /\ busResult' = result
           /\ predResponse' = PredBusResponse(predCall, result)
           /\ cacheTasks' = IF result.threw THEN cacheTasks
                            ELSE Append(cacheTasks, NewPutTask(result.value))
    /\ UNCHANGED <<predCall, predCache, railCall, railResult,
                   stopsCall, stopsResponse, dirCall, dirResponse, db,
                   routesCall, routesResponse, adminCall, adminResponse,
                   peerCall, peerResponse,
                   routeStopsCall, routeStopsResponse>>

\* default: any other agency, without a fresh entry.
CachedPredHandleUnsupported ==
    /\ predCall # Idle
    /\ predResponse = Idle
    /\ ~PredCacheHit(predCache)
    /\ ToLowerCase(predCall.agency) # <<"a", "c", "t", "r", "a", "n", "s", "i", "t">>
    /\ predResponse' =
          PredFailure(400, "Unsupported agency: " \o StringOf(predCall.agency)
                           \o ". Currently only 'actransit' is supported.")
    /\ UNCHANGED <<predCall, predCache, busCall, busResult, railCall, railResult,
                   stopsCall, stopsResponse, dirCall, dirResponse, db, cacheTasks,
                   routesCall, routesResponse, adminCall, adminResponse,
                   peerCall, peerResponse,
                   routeStopsCall, routeStopsResponse>>

\* cache.put stores the body; a later match reports its age from 0.
CachePut ==
    \E i \in 1..Len(cacheTasks) :
        /\ cacheTasks[i].kind = "put"
        /\ cacheTasks[i].pc = "put"
        /\ predCache' = [present |-> TRUE, age |-> <<"0">>,
                         predictions |-> cacheTasks[i].predictions]
        /\ cacheTasks' = [cacheTasks EXCEPT ![i].pc = "done"]
        /\ UNCHANGED <<predCall, predResponse, busCall, busResult, railCall, railResult,
                       stopsCall, stopsResponse, dirCall, dirResponse, db,
                       routesCall, routesResponse, adminCall, adminResponse,
                       peerCall, peerResponse,
                   routeStopsCall, routeStopsResponse>>

\* cache.put rejects: waitUntil drops the rejection.
CachePutFails ==
    \E i \in 1..Len(cacheTasks) :
        /\ cacheTasks[i].kind = "put"
        /\ cacheTasks[i].pc = "put"
        /\ cacheTasks' = [cacheTasks EXCEPT ![i].pc = "failed"]
        /\ UNCHANGED <<predCall, predResponse, predCache, busCall, busResult,
                       railCall, railResult, stopsCall, stopsResponse, dirCall,
                       dirResponse, db, routesCall, routesResponse,
                       adminCall, adminResponse, peerCall, peerResponse,
                   routeStopsCall, routeStopsResponse>>

CachedPredNext ==
    \/ CachedPredHandleHit
    \/ CachedPredHandleBus
    \/ CachedPredHandleUnsupported
    \/ CachePut
    \/ CachePutFails

SpecCachedPredictions == CachedPredInit /\ [][CachedPredNext]_vars


(***************************************************************************)
(* Properties of the prediction cache                                      *)
(***************************************************************************)
\* The step in which the predictions endpoint answers.
PredAnswerStep == predResponse = Idle /\ predResponse' # Idle

\* The seconds an entry's age header states, -1 when it states none.
AgeSeconds(entry) ==
    IF entry.present /\ entry.age # Undefined /\ entry.age # <<>>
       /\ \A i \in 1..Len(entry.age) : entry.age[i] \in Digits
    THEN DigitsValue(entry.age, 0)
    ELSE -1

EntryYoungerThan10s(entry) == AgeSeconds(entry) >= 0 /\ AgeSeconds(entry) < 10

\* C21: a predictions request is answered from the cache, without a call
\* of the upstream adapter, exactly when the entry's age is less than 10
\* seconds; with no entry, no age or an age of 10 seconds or more the
\* adapter of a supported agency is called.
C21_CacheOnlyWhenFresh ==
    [][PredAnswerStep =>
          IF EntryYoungerThan10s(predCache)
          THEN /\ busCall' = Idle
               /\ predResponse' = PredFromCache(predCall, predCache)
          ELSE ToLowerCase(predCall.agency) = <<"a", "c", "t", "r", "a", "n", "s", "i", "t">>
                  => /\ busCall' # Idle
                     /\ predResponse' = PredBusResponse(predCall, busResult')]_vars

\* Answered from an entry 9 seconds old without an adapter call.
C21_Witness ==
    /\ PredAnswered
    /\ predCache.present
    /\ predCache.age = <<"9">>
    /\ predCache.predictions # <<>>
    /\ busCall = Idle
    /\ predResponse.success
    /\ predResponse.predictions # <<>>

\* Not answered from an entry 10 seconds old: the adapter was called.
C21_WitnessStale ==
    /\ PredAnswered
    /\ busCall # Idle
    /\ cacheTasks = <<>>
    /\ predCache.present
    /\ predCache.age = <<"1", "0">>


(***************************************************************************)
(* RouteStops.handle (src/endpoints/routeStops.ts): the stops of a route   *)
(* by direction, always from the upstream; cacheStops is the code of       *)
(* Stops.cacheStopsData.                                                   *)
(***************************************************************************)
\* routeDirection.Stops.map(...)
RouteStopsOf(stops) ==
    [i \in 1..Len(stops) |->
        [stopId |-> NumberToString(stops[i].StopId),
         stopCode |-> NumberToString(stops[i].StopId),
         stopName |-> stops[i].Name,
         lat |-> stops[i].Latitude, lon |-> stops[i].Longitude, order |-> i]]

\* routeStopsData.map(...)
RouteStopsDirections(routeStopsData) ==
    [k \in 1..Len(routeStopsData) |->
        [direction |-> routeStopsData[k].Direction,
         destination |-> routeStopsData[k].Destination,
         stops |-> RouteStopsOf(routeStopsData[k].Stops)]]

RouteStopsSuccess(directions) ==
    [status |-> 200, success |-> TRUE, error |-> "", directions |-> directions]

RouteStopsFailure(status, error) ==
    [status |-> status, success |-> FALSE, error |-> error, directions |-> <<>>]

\* The response of RouteStops.handle.
RouteStopsAnswer(agency, route, resp) ==
    IF agency # "actransit"
    THEN RouteStopsFailure(400, "Only AC Transit is currently supported")
    ELSE IF resp.kind = "network-error" THEN RouteStopsFailure(500, "fetch failed")
    ELSE IF ~ResponseOk(resp)
    THEN IF resp.status = 404
         THEN RouteStopsFailure(404, "Route " \o route \o " not found")
         ELSE RouteStopsFailure(500, "AC Transit API error: " \o StatusString[resp.status])
    ELSE IF resp.kind = "bad-json" THEN RouteStopsFailure(500, "SyntaxError")
    ELSE RouteStopsSuccess(RouteStopsDirections(resp.data))

\* A request is about to reach the route-stops endpoint.
RouteStopsInit ==
    /\ routeStopsCall \in StopsCallSet
    /\ db \in DbSetFor(routeStopsCall.response)
    /\ routeStopsResponse = Idle
    /\ cacheTasks = <<>>
    /\ predCache = Idle
    /\ busCall = Idle /\ busResult = Idle
    /\ railCall = Idle /\ railResult = Idle
    /\ stopsCall = Idle /\ stopsResponse = Idle
    /\ dirCall = Idle /\ dirResponse = Idle
    /\ predCall = Idle /\ predResponse = Idle
    /\ routesCall = Idle /\ routesResponse = Idle
    /\ adminCall = Idle /\ adminResponse = Idle
    /\ peerCall = Idle /\ peerResponse = Idle

\* RouteStops.handle: the upstream is asked, and a successful answer is
\* handed to waitUntil for caching.
RouteStopsHandle ==
    /\ routeStopsCall # Idle
    /\ routeStopsResponse = Idle
    /\ routeStopsResponse' = RouteStopsAnswer(routeStopsCall.agency, routeStopsCall.route,
                                              routeStopsCall.response)
    /\ cacheTasks' =
          IF RouteStopsAnswer(routeStopsCall.agency, routeStopsCall.route,
                              routeStopsCall.response).success
          THEN Append(cacheTasks, NewCacheTask(routeStopsCall.agency, routeStopsCall.route,
                                               routeStopsCall.response.data,
                                               routeStopsCall.now))
          ELSE cacheTasks
    /\ UNCHANGED <<routeStopsCall, db, predCache, busCall, busResult, railCall,
                   railResult, stopsCall, stopsResponse, dirCall, dirResponse,
                   predCall, predResponse, routesCall, routesResponse,
                   adminCall, adminResponse, peerCall, peerResponse>>


(***************************************************************************)
(* Cache writes in the background: one request of any of the four          *)
(* endpoints that hand a write to waitUntil, with writes that may stop at  *)
(* any statement or fail at it.                                            *)
(***************************************************************************)
\* A failure of a write that reaches the response, as an awaited write
\* inside the handler's try block would.
CacheWriteFails_Propagates ==
    \E i \in 1..Len(cacheTasks) :
        /\ cacheTasks[i].kind \in {"stops", "routes"}
        /\ cacheTasks[i].pc \notin {"done", "failed"}
        /\ cacheTasks' = [cacheTasks EXCEPT ![i].pc = "failed"]
        /\ stopsResponse' = IF stopsResponse = Idle THEN Idle
                            ELSE StopsFailure(500, "D1_ERROR")
        /\ routeStopsResponse' = IF routeStopsResponse = Idle THEN Idle
                                 ELSE RouteStopsFailure(500, "D1_ERROR")
        /\ routesResponse' = IF routesResponse = Idle THEN Idle
                             ELSE RoutesFailure(500, "D1_ERROR", routesResponse.fetched)
        /\ UNCHANGED <<db, predCache, busCall, busResult, railCall, railResult,
                       stopsCall, dirCall, dirResponse, predCall, predResponse,
                       routesCall, adminCall, adminResponse, peerCall, peerResponse,
                       routeStopsCall>>

\* A statement of a metadata cache write throws: the catch of
\* cacheStopsData, cacheStops or cacheRoutes logs it and the write ends.
CacheWriteFails ==
    \E i \in 1..Len(cacheTasks) :
        /\ cacheTasks[i].kind \in {"stops", "routes"}
        /\ cacheTasks[i].pc \notin {"done", "failed"}
        /\ cacheTasks' = [cacheTasks EXCEPT ![i].pc = "failed"]
        /\ UNCHANGED <<db, predCache, busCall, busResult, railCall, railResult,
                       stopsCall, stopsResponse, dirCall, dirResponse, predCall,
                       predResponse, routesCall, routesResponse, adminCall,
                       adminResponse, peerCall, peerResponse,
                       routeStopsCall, routeStopsResponse>>

BackgroundInit ==
    \/ StopsInit
    \/ RouteStopsInit
    \/ RoutesInit
    \/ (/\ CachedPredInit
        /\ predCall.direction = Undefined
        /\ predCache.age \in {Undefined, <<"9">>})

BackgroundNext ==
    \/ StopsNext
    \/ RouteStopsHandle
    \/ RoutesNext
    \/ CachedPredNext
    \/ CacheWriteFails

SpecBackgroundWrites == BackgroundInit /\ [][BackgroundNext]_vars

\* The responses of the four endpoints.
EndpointResponses == <<stopsResponse, routeStopsResponse, routesResponse, predResponse>>

\* C22: cache writes run in the background of the response: no write
\* exists before the response of its request is fixed, and from then on no
\* step of a write, finished, failed or left unfinished, changes the
\* response's content or status.
C22_WritesInBackground ==
    [][/\ (cacheTasks' # <<>> =>
              \E r \in 1..4 : EndpointResponses'[r] # Idle)
       /\ \A r \in 1..4 :
              EndpointResponses[r] # Idle => EndpointResponses'[r] = EndpointResponses[r]
      ]_vars

\* A write has failed and the response is the success it was.
C22_Witness ==
    /\ cacheTasks # <<>>
    /\ cacheTasks[1].pc = "failed"
    /\ cacheTasks[1].kind = "stops"
    /\ stopsResponse # Idle
    /\ stopsResponse.status = 200
    /\ stopsResponse.stops # <<>>


(***************************************************************************)
(* Two requests to the stops endpoint for one route, running concurrently  *)
(* against one upstream payload: each request's statements and the cache   *)
(* writes they start interleave at the awaits.                             *)
(***************************************************************************)
\* The requests of the pair: payloads of at most one direction record.
StopsPairCallSet ==
    {c \in StopsCallSet : c.now = 3600000 /\ Len(c.response.data) <= 1}

StopsPairInit ==
    /\ stopsCall \in StopsPairCallSet
    /\ peerCall = stopsCall
    /\ db \in DbSetFor(stopsCall.response)
    /\ stopsResponse = Idle
    /\ peerResponse = Idle
    /\ cacheTasks = <<>>
    /\ predCache = Idle
    /\ busCall = Idle /\ busResult = Idle
    /\ railCall = Idle /\ railResult = Idle
    /\ dirCall = Idle /\ dirResponse = Idle
    /\ predCall = Idle /\ predResponse = Idle
    /\ routesCall = Idle /\ routesResponse = Idle
    /\ adminCall = Idle /\ adminResponse = Idle
    /\ routeStopsCall = Idle /\ routeStopsResponse = Idle

\* Stops.handle of the second request, answered from the cache.
PeerStopsHandleCached ==
    /\ peerCall # Idle
    /\ peerResponse = Idle
    /\ CachedStopRows(db, peerCall.agency, peerCall.route) # {}
    /\ \E rowSeq \in RowOrders(CachedStopRows(db, peerCall.agency, peerCall.route)) :
          peerResponse' = StopsSuccess(CachedStopsOf(rowSeq), "cache")
    /\ UNCHANGED <<peerCall, db, cacheTasks, predCache, busCall, busResult, railCall,
                   railResult, stopsCall, stopsResponse, dirCall, dirResponse,
                   predCall, predResponse, routesCall, routesResponse,
                   adminCall, adminResponse, routeStopsCall, routeStopsResponse>>

\* Stops.handle of the second request when the cache has nothing.
PeerStopsHandleFetch ==
    /\ peerCall # Idle
    /\ peerResponse = Idle
    /\ CachedStopRows(db, peerCall.agency, peerCall.route) = {}
    /\ peerResponse' = StopsFromUpstream(peerCall.agency, peerCall.route,
                                         peerCall.response)
    /\ cacheTasks' =
          IF StopsFromUpstream(peerCall.agency, peerCall.route, peerCall.response).success
          THEN Append(cacheTasks, NewCacheTask(peerCall.agency, peerCall.route,
                                               peerCall.response.data, peerCall.now))
          ELSE cacheTasks
    /\ UNCHANGED <<peerCall, db, predCache, busCall, busResult, railCall,
                   railResult, stopsCall, stopsResponse, dirCall, dirResponse,
                   predCall, predResponse, routesCall, routesResponse,
                   adminCall, adminResponse, routeStopsCall, routeStopsResponse>>

StopsPairNext ==
    \/ StopsHandleCached
    \/ StopsHandleFetch
    \/ PeerStopsHandleCached
    \/ PeerStopsHandleFetch
    \/ CacheStopsData

SpecStopsPair == StopsPairInit /\ [][StopsPairNext]_vars

BothAnswered == stopsResponse # Idle /\ peerResponse # Idle

\* C23: two concurrent stops requests for one route against one upstream
\* payload get identical results, whatever the interleaving.
C23_ConcurrentRequestsAgree ==
    (/\ BothAnswered
     /\ stopsCall.response.kind = "http"
     /\ ResponseOk(stopsCall.response)) =>
        /\ stopsResponse.status = peerResponse.status
        /\ stopsResponse.success = peerResponse.success
        /\ stopsResponse.error = peerResponse.error
        /\ stopsResponse.stops = peerResponse.stops

\* What the code does: the request that finds no cached stop answers from
\* the payload and starts a cache write; a request that runs while that
\* write is under way reads the rows written so far.  Two requests that
\* both answer from the payload agree.
RequestsFromUpstreamAgree ==
    (/\ BothAnswered
     /\ stopsResponse.servedFrom # "cache"
     /\ peerResponse.servedFrom # "cache")
        => /\ stopsResponse.status = peerResponse.status
           /\ stopsResponse.error = peerResponse.error
           /\ stopsResponse.stops = peerResponse.stops

\* One request answered from the payload with two stops, the other from
\* the rows its cache write had written by then: one stop.
PeerReadPartialWrite ==
    /\ BothAnswered
    /\ db \notin {SeedDb, SeedDbNoRoute}
    /\ stopsResponse.servedFrom = "upstream"
    /\ peerResponse.servedFrom = "cache"
    /\ Len(stopsResponse.stops) = 2
    /\ Len(peerResponse.stops) = 1


(***************************************************************************)
(* The cache of the stops endpoint against its direct computation          *)
(***************************************************************************)
\* The request was answered from the payload and its cache write has run
\* to its end on a database that has the route.
StopsWriteCompleted ==
    /\ StopsConsolidated
    /\ Len(cacheTasks) = 1
    /\ cacheTasks[1].pc = "done"
    /\ \E r \in db.routes : <<r.agency, r.code>> = <<stopsCall.agency, stopsCall.route>>

\* The lists getCachedStops may return now.
StopsFromCacheNow ==
    {CachedStopsOf(rowSeq) :
        rowSeq \in RowOrders(CachedStopRows(db, stopsCall.agency, stopsCall.route))}

\* C24: once the cache write of a payload has completed, the list the
\* stops endpoint rebuilds from the cache is the list it computed from the
\* payload: the same entries in the same order, with the same joined ids
\* and the same coordinates.
C24_CacheEqualsDirect ==
    StopsWriteCompleted => StopsFromCacheNow = {stopsResponse.stops}

NamesOf(stops) == {stops[i].stopName : i \in 1..Len(stops)}

\* What the code keeps: the cache rebuilds an entry for every name of the
\* payload and for no other name, in the order of localeCompare.
CacheHasSameNames ==
    StopsWriteCompleted =>
        \A l \in StopsFromCacheNow :
            /\ Len(l) = Len(stopsResponse.stops)
            /\ \A i \in 1..Len(l) : l[i].stopName = stopsResponse.stops[i].stopName

\* A stop listed under two directions: the payload's list joins its id
\* twice, the cache's SELECT DISTINCT has it once.
CacheDropsRepeatedId ==
    /\ StopsWriteCompleted
    /\ Len(stopsResponse.stops) = 1
    /\ stopsResponse.stops[1].stopId = <<"5", "1", ",", "5", "1">>
    /\ \A l \in StopsFromCacheNow : l[1].stopId = <<"5", "1">>

\* Two ids of one name: the payload's list has them in the payload's
\* order, the cache's in the order the rows of one stop_name arrive.
CacheIdOrderFree ==
    /\ StopsWriteCompleted
    /\ Len(stopsResponse.stops) = 1
    /\ stopsResponse.stops[1].stopId = <<"5", "2", ",", "5", "1">>
    /\ \E l \in StopsFromCacheNow : l[1].stopId = <<"5", "1", ",", "5", "2">>

(***************************************************************************)
(* The admin endpoints: the full-catalog sync (SyncTransitData, with       *)
(* TransitDataSync) and the import (ImportACTransitData, with              *)
(* ACTransitDataImporter).                                                 *)
(***************************************************************************)

BearerPrefix == <<"B", "e", "a", "r", "e", "r", " ">>

\* String.prototype.startsWith(t)
StartsWith(s, t) == Len(s) >= Len(t) /\ SubSeq(s, 1, Len(t)) = t

\* The secret of the deployment, and no secret at all.
AdminSyncTokenSamples == { <<"k">>, Undefined }

\* The Authorization header: absent, empty, the secret with the prefix in
\* either case, another token, no token, another scheme and the bare secret.
AuthHeaderSamples ==
    { Undefined,
      <<>>,
      BearerPrefix \o <<"k">>,
      ToLowerCase(BearerPrefix) \o <<"k">>,
      BearerPrefix \o <<"x">>,
      BearerPrefix,
      <<"B", "a", "s", "i", "c", " ", "k">>,
      <<"k">> }

\* The agency parameter of the sync endpoint.
SyncAgencySamples ==
    { Undefined,
      <<"a", "c", "t", "r", "a", "n", "s", "i", "t">>,
      <<"A", "C", "T", "r", "a", "n", "s", "i", "t">>,
      <<"b", "a", "r", "t">> }

\* Routes of the upstream catalog as ACTransitRoute parses them; a
\* Description is <<>> for null and <<text>> for a text.
CatalogRouteSamples ==
    { [RouteId |-> "NL", Name |-> "Transbay Night Line", Description |-> <<>>],
      [RouteId |-> "6", Name |-> "", Description |-> <<"Telegraph">>],
      [RouteId |-> "F", Name |-> "", Description |-> <<>>] }

CatalogSet == SeqsUpTo(CatalogRouteSamples, MaxRoutes)

\* The upstream catalog when the import runs: what fetch gives for
\* /transit/routes (valid tells whether z.array(ACTransitRoute) accepts the
\* body), and routeStops, what the upstream holds for /route/NL/stops, which
\* the import does not ask for.
CatalogResponseSet ==
    [kind : {"network-error"}, status : {0}, valid : {FALSE}, data : {NoRoutes},
     routeStops : {NoRouteStops}]
    \cup [kind : {"http"}, status : {500}, valid : {FALSE}, data : {NoRoutes},
          routeStops : {NoRouteStops}]
    \cup [kind : {"http"}, status : {200}, valid : {FALSE}, data : {NoRoutes},
          routeStops : {NoRouteStops}]
    \cup { r \in [kind : {"http"}, status : {200}, valid : {TRUE}, data : CatalogSet,
                  routeStops : {NoRouteStops, StalePayload}] :
             r.routeStops # NoRouteStops
                => \E i \in 1..Len(r.data) : r.data[i].RouteId = "NL" }

\* The databases an admin request may find: the seed, the seed with a
\* cached payload, the same with a second agency, and no agency at all.
AdminDbSet ==
    { SeedDb, CacheOf(StalePayload), InsertAgency(CacheOf(StalePayload), "bart", 0),
      EmptyDb }

\* One SyncResult of syncACTransit at its start.
NewSyncResult ==
    [agency |-> "actransit", routesAdded |-> 0, routesUpdated |-> 0,
     routesDeactivated |-> 0, stopsAdded |-> 0, stopsUpdated |-> 0,
     stopsDeactivated |-> 0, error |-> ""]

\* The SyncResult syncAll pushes for an agency whose sync threw.
FailedSyncResult(agencyCode, message) ==
    [agency |-> agencyCode, routesAdded |-> 0, routesUpdated |-> 0,
     routesDeactivated |-> 0, stopsAdded |-> 0, stopsUpdated |-> 0,
     stopsDeactivated |-> 0, error |-> message]

\* The requests to the admin endpoints.  pc is the statement the handler
\* awaits next; todo, fromAll, results, result, errors, routes, k, thrown
\* and fetched are the locals of the run; before is the database the
\* handler found when it passed the authorization.
AdminCallSet ==
    { [endpoint |-> e, authHeader |-> h, adminSyncToken |-> s, agency |-> a,
       response |-> r, now |-> 3600000,
       pc |-> "auth", todo |-> <<>>, fromAll |-> FALSE, results |-> <<>>,
       result |-> NewSyncResult, errors |-> <<>>, routes |-> 0, k |-> 1,
       thrown |-> "", fetched |-> FALSE, before |-> EmptyDb] :
        e \in {"sync", "import"}, h \in AuthHeaderSamples,
        s \in AdminSyncTokenSamples, a \in SyncAgencySamples,
        r \in CatalogResponseSet }

\* The JSON bodies of the admin endpoints, with the HTTP status.
AdminFailure(status, error) ==
    [status |-> status, success |-> FALSE, error |-> error, results |-> <<>>,
     routes |-> 0, stops |-> 0, directions |-> 0, errors |-> <<>>]

SyncSuccess(results) ==
    [status |-> 200, success |-> TRUE, error |-> "", results |-> results,
     routes |-> 0, stops |-> 0, directions |-> 0, errors |-> <<>>]

ImportSuccess(result) ==
    [status |-> 200, success |-> TRUE, error |-> "", results |-> <<>>,
     routes |-> result.routes, stops |-> 0, directions |-> 0,
     errors |-> result.errors]

\* The authorization check without the comparison of the token.
AdminAuthorize_AnyBearer(authHeader, adminSyncToken) ==
    IF ~Truthy(authHeader) \/ ~StartsWith(authHeader, BearerPrefix)
    THEN AdminFailure(401, "Unauthorized - Bearer token required")
    ELSE Idle

\* The authorization check both handlers begin with: the 401 answer, or
\* Idle when the handler goes on.
AdminAuthorize(authHeader, adminSyncToken) ==
    IF ~Truthy(authHeader) \/ ~StartsWith(authHeader, BearerPrefix)
    THEN AdminFailure(401, "Unauthorized - Bearer token required")
    ELSE IF SubstringFrom(authHeader, 7) # adminSyncToken
    THEN AdminFailure(401, "Invalid token")
    ELSE Idle

\* syncAgency's switch on agencyCode.toLowerCase().
SyncSupported(agencyChars) ==
    ToLowerCase(agencyChars) = <<"a", "c", "t", "r", "a", "n", "s", "i", "t">>

\* The agency codes of the agencies table as characters.
AgencyCodeChars ==
    ("actransit" :> <<"a", "c", "t", "r", "a", "n", "s", "i", "t">>)
    @@ ("bart" :> <<"b", "a", "r", "t">>)

\* The orders in which SELECT code FROM agencies WHERE active = TRUE may
\* deliver its rows.
AgencyOrders(d) ==
    { f \in [1..Cardinality(d.agencies) -> d.agencies] :
        \A a \in 1..Cardinality(d.agencies), b \in 1..Cardinality(d.agencies) :
            a # b => f[a] # f[b] }

\* UPDATE routes SET active = FALSE WHERE agency_id = ?
DeactivateRoutes(d, agencyCode) ==
    [d EXCEPT !.routes =
        { IF r.agency = agencyCode THEN [r EXCEPT !.active = FALSE] ELSE r :
            r \in d.routes }]

\* UPDATE stops SET active = FALSE WHERE agency_id = ?
DeactivateStops(d, agencyCode) ==
    [d EXCEPT !.stops =
        { IF r.agency = agencyCode THEN [r EXCEPT !.active = FALSE] ELSE r :
            r \in d.stops }]

\* The keys of SELECT id FROM routes WHERE agency_id = ?
RouteKeysOf(d, agencyCode) ==
    { <<r.agency, r.code>> : r \in {x \in d.routes : x.agency = agencyCode} }

\* UPDATE directions SET active = FALSE WHERE route_id IN (...)
DeactivateDirections(d, agencyCode) ==
    [d EXCEPT !.directions =
        { IF r.route \in RouteKeysOf(d, agencyCode)
          THEN [r EXCEPT !.active = FALSE] ELSE r : r \in d.directions }]

\* UPDATE stop_routes SET active = FALSE WHERE route_id IN (...)
DeactivateStopRoutes(d, agencyCode) ==
    [d EXCEPT !.stopRoutes =
        { IF r.route \in RouteKeysOf(d, agencyCode)
          THEN [r EXCEPT !.active = FALSE] ELSE r : r \in d.stopRoutes }]

\* route.Name || route.Description || route.RouteId
ImportedRouteName(route) ==
    IF route.Name # "" THEN route.Name
    ELSE IF route.Description # <<>> /\ route.Description[1] # ""
    THEN route.Description[1]
    ELSE route.RouteId

\* importRoute: INSERT INTO routes ... ON CONFLICT(agency_id, route_code)
\* DO UPDATE SET route_name, active, updated_at; a row that exists keeps
\* its route_type.
ImportRoute(d, agencyCode, route, at) ==
    LET old == {r \in d.routes : r.agency = agencyCode /\ r.code = route.RouteId}
    IN  [d EXCEPT !.routes =
            (@ \ old)
            \cup {[agency |-> agencyCode, code |-> route.RouteId,
                   name |-> ImportedRouteName(route),
                   type |-> IF old = {} THEN "bus" ELSE (CHOOSE r \in old : TRUE).type,
                   active |-> TRUE, updatedAt |-> SqlTimestamp(at)]}]

\* The loop of syncAll from its next agency on.  syncAgency throws for an
\* agency it does not support, and the catch of the loop pushes the result.
RECURSIVE SyncAllNext(_)
SyncAllNext(c) ==
    IF c.todo = <<>> THEN [c EXCEPT !.pc = "return"]
    ELSE IF SyncSupported(AgencyCodeChars[Head(c.todo)])
    THEN [c EXCEPT !.pc = "syncAgency", !.todo = Tail(@),
                   !.result = NewSyncResult, !.errors = <<>>]
    ELSE SyncAllNext([c EXCEPT
            !.todo = Tail(@),
            !.results = Append(@, FailedSyncResult(Head(c.todo),
                                     "Unsupported agency: " \o Head(c.todo)))])

\* syncACTransit throws: into the catch of syncAll, or into the catch of
\* the handler.
SyncThrow(c, message) ==
    IF c.fromAll
    THEN SyncAllNext([c EXCEPT !.results = Append(@, FailedSyncResult("actransit", message))])
    ELSE [c EXCEPT !.pc = "return", !.thrown = message]

\* syncACTransit returns its result.
SyncReturn(c, result) ==
    IF c.fromAll
    THEN SyncAllNext([c EXCEPT !.results = Append(@, result)])
    ELSE [c EXCEPT !.pc = "return", !.results = <<result>>]

\* importAllData returns: to the import handler, or to syncACTransit,
\* which goes on to count.
AfterImport(c) ==
    IF c.endpoint = "import" THEN [c EXCEPT !.pc = "return"]
    ELSE [c EXCEPT !.pc = "countActiveRoutes"]

\* The outer catch of importAllData.
ImportFailed(c, message) ==
    AfterImport([c EXCEPT !.errors = Append(@, "General error: " \o message)])

\* The end of syncACTransit: the error of the result.
SyncResultError(errors) ==
    IF Len(errors) > 0
    THEN "Import completed with " \o StringOf(NumberToString(Len(errors))) \o " errors"
    ELSE ""

\* The statements syncACTransit and importAllData await.
SyncPcs ==
    { "syncAgency", "deactRoutes", "deactStops", "deactDirections", "deactLinks",
      "impAgency", "impFetch", "impRoute",
      "countActiveRoutes", "countActiveStops", "countInactiveRoutes",
      "countInactiveStops" }

\* One awaited statement of syncACTransit or of importAllData: the
\* database and the run after it.  The text of a ZodError is not modelled.
SyncStep(d, c) ==
    LET resp == c.response
        ofAgency(rows) == {r \in rows : r.agency = "actransit"}
    IN  CASE c.pc = "syncAgency" ->
                [db |-> d,
                 call |-> IF "actransit" \in d.agencies
                          THEN [c EXCEPT !.pc = "deactRoutes"]
                          ELSE SyncThrow(c, "AC Transit agency not found in database")]
          [] c.pc = "deactRoutes" ->
                [db |-> DeactivateRoutes(d, "actransit"),
                 call |-> [c EXCEPT !.pc = "deactStops"]]
          [] c.pc = "deactStops" ->
                [db |-> DeactivateStops(d, "actransit"),
                 call |-> [c EXCEPT !.pc = "deactDirections"]]
          [] c.pc = "deactDirections" ->
                [db |-> DeactivateDirections(d, "actransit"),
                 call |-> [c EXCEPT !.pc = "deactLinks"]]
          [] c.pc = "deactLinks" ->
                [db |-> DeactivateStopRoutes(d, "actransit"),
                 call |-> [c EXCEPT !.pc = "impAgency"]]
          [] c.pc = "impAgency" ->
                [db |-> d,
                 call |-> IF "actransit" \in d.agencies
                          THEN [c EXCEPT !.pc = "impFetch"]
                          ELSE ImportFailed(c, "AC Transit agency not found in database")]
          [] c.pc = "impFetch" ->
                [db |-> d,
                 call |->
                    LET f == [c EXCEPT !.fetched = TRUE]
                    IN  IF resp.kind = "network-error" THEN ImportFailed(f, "fetch failed")
                        ELSE IF ~ResponseOk(resp)
                        THEN ImportFailed(f, "Failed to fetch routes: "
                                                \o StatusString[resp.status])
                        ELSE IF ~resp.valid THEN ImportFailed(f, "ZodError")
                        ELSE IF Len(resp.data) = 0
                        THEN AfterImport([f EXCEPT !.routes = 0])
                        ELSE [f EXCEPT !.routes = Len(resp.data), !.k = 1,
                                       !.pc = "impRoute"]]
          [] c.pc = "impRoute" ->
                [db |-> ImportRoute(d, "actransit", resp.data[c.k], c.now),
                 call |-> IF c.k < Len(resp.data) THEN [c EXCEPT !.k = c.k + 1]
                          ELSE AfterImport(c)]
          [] c.pc = "countActiveRoutes" ->
                [db |-> d,
                 call |-> [c EXCEPT !.pc = "countActiveStops",
                              !.result.routesUpdated =
                                  Cardinality({r \in ofAgency(d.routes) : r.active})]]
          [] c.pc = "countActiveStops" ->
                [db |-> d,
                 call |-> [c EXCEPT !.pc = "countInactiveRoutes",
                              !.result.stopsUpdated =
                                  Cardinality({r \in ofAgency(d.stops) : r.active})]]
          [] c.pc = "countInactiveRoutes" ->
                [db |-> d,
                 call |-> [c EXCEPT !.pc = "countInactiveStops",
                              !.result.routesDeactivated =
                                  Cardinality({r \in ofAgency(d.routes) : ~r.active})]]
          [] c.pc = "countInactiveStops" ->
                [db |-> d,
                 call |->
                    SyncReturn(c,
                        [c.result EXCEPT
                            !.stopsDeactivated =
                                Cardinality({r \in ofAgency(d.stops) : ~r.active}),
                            !.error = SyncResultError(c.errors)])]

\* What the handler answers when its run has ended.
AdminAnswerOf(c) ==
    IF c.endpoint = "import"
    THEN ImportSuccess([routes |-> c.routes, errors |-> c.errors])
    ELSE IF c.thrown # "" THEN AdminFailure(500, c.thrown)
    ELSE SyncSuccess(c.results)

\* A request is about to reach an admin endpoint.
AdminInit ==
    /\ adminCall \in AdminCallSet
    /\ adminResponse = Idle
    /\ db \in AdminDbSet
    /\ cacheTasks = <<>>
    /\ predCache = Idle
    /\ peerCall = Idle /\ peerResponse = Idle
    /\ routeStopsCall = Idle /\ routeStopsResponse = Idle
    /\ busCall = Idle /\ busResult = Idle
    /\ railCall = Idle /\ railResult = Idle
    /\ stopsCall = Idle /\ stopsResponse = Idle
    /\ dirCall = Idle /\ dirResponse = Idle
    /\ predCall = Idle /\ predResponse = Idle
    /\ routesCall = Idle /\ routesResponse = Idle

\* SyncTransitData.handle and ImportACTransitData.handle answer 401.
AdminReject ==
    /\ adminCall # Idle /\ adminResponse = Idle
    /\ adminCall.pc = "auth"
    /\ AdminAuthorize(adminCall.authHeader, adminCall.adminSyncToken) # Idle
    /\ adminResponse' = AdminAuthorize(adminCall.authHeader, adminCall.adminSyncToken)
    /\ adminCall' = [adminCall EXCEPT !.pc = "done"]
    /\ UNCHANGED <<busCall, busResult, railCall, railResult, stopsCall, stopsResponse,
                   dirCall, dirResponse, db, cacheTasks, predCall, predResponse,
                   routesCall, routesResponse, predCache, peerCall, peerResponse,
                   routeStopsCall, routeStopsResponse>>

\* SyncTransitData.handle with an agency syncAgency does not support: the
\* catch of the handler answers.
AdminUnsupportedAgency ==
    /\ adminCall # Idle /\ adminResponse = Idle
    /\ adminCall.pc = "auth"
    /\ AdminAuthorize(adminCall.authHeader, adminCall.adminSyncToken) = Idle
    /\ adminCall.endpoint = "sync"
    /\ Truthy(adminCall.agency) /\ ~SyncSupported(adminCall.agency)
    /\ adminResponse' =
          AdminFailure(500, "Unsupported agency: " \o StringOf(adminCall.agency))
    /\ adminCall' = [adminCall EXCEPT !.pc = "done", !.before = db]
    /\ UNCHANGED <<busCall, busResult, railCall, railResult, stopsCall, stopsResponse,
                   dirCall, dirResponse, db, cacheTasks, predCall, predResponse,
                   routesCall, routesResponse, predCache, peerCall, peerResponse,
                   routeStopsCall, routeStopsResponse>>

\* The handlers pass the authorization and reach their first statement.
AdminBegin ==
    /\ adminCall # Idle /\ adminResponse = Idle
    /\ adminCall.pc = "auth"
    /\ AdminAuthorize(adminCall.authHeader, adminCall.adminSyncToken) = Idle
    /\ adminCall.endpoint = "sync" /\ Truthy(adminCall.agency)
          => SyncSupported(adminCall.agency)
    /\ adminCall' =
          [adminCall EXCEPT
              !.before = db,
              !.pc = IF adminCall.endpoint = "import" THEN "impAgency"
                     ELSE IF Truthy(adminCall.agency) THEN "syncAgency"
                     ELSE "syncAll"]
    /\ UNCHANGED <<busCall, busResult, railCall, railResult, stopsCall, stopsResponse,
                   dirCall, dirResponse, db, cacheTasks, predCall, predResponse,
                   routesCall, routesResponse, predCache, adminResponse, peerCall,
                   peerResponse, routeStopsCall, routeStopsResponse>>

\* syncAll reads the agencies and enters its loop.
SyncAll ==
    /\ adminCall # Idle /\ adminResponse = Idle
    /\ adminCall.pc = "syncAll"
    /\ \E order \in AgencyOrders(db) :
          adminCall' = SyncAllNext([adminCall EXCEPT !.todo = order, !.fromAll = TRUE])
    /\ UNCHANGED <<busCall, busResult, railCall, railResult, stopsCall, stopsResponse,
                   dirCall, dirResponse, db, cacheTasks, predCall, predResponse,
                   routesCall, routesResponse, predCache, adminResponse, peerCall,
                   peerResponse, routeStopsCall, routeStopsResponse>>

\* syncACTransit or importAllData runs its next statement.
SyncACTransit ==
    /\ adminCall # Idle /\ adminResponse = Idle
    /\ adminCall.pc \in SyncPcs
    /\ db' = SyncStep(db, adminCall).db
    /\ adminCall' = SyncStep(db, adminCall).call
    /\ UNCHANGED <<busCall, busResult, railCall, railResult, stopsCall, stopsResponse,
                   dirCall, dirResponse, cacheTasks, predCall, predResponse,
                   routesCall, routesResponse, predCache, adminResponse, peerCall,
                   peerResponse, routeStopsCall, routeStopsResponse>>

\* The handler returns its answer.
AdminAnswer ==
    /\ adminCall # Idle /\ adminResponse = Idle
    /\ adminCall.pc = "return"
    /\ adminResponse' = AdminAnswerOf(adminCall)
    /\ adminCall' = [adminCall EXCEPT !.pc = "done"]
    /\ UNCHANGED <<busCall, busResult, railCall, railResult, stopsCall, stopsResponse,
                   dirCall, dirResponse, db, cacheTasks, predCall, predResponse,
                   routesCall, routesResponse, predCache, peerCall, peerResponse,
                   routeStopsCall, routeStopsResponse>>

AdminNext ==
    \/ AdminReject
    \/ AdminUnsupportedAgency
    \/ AdminBegin
    \/ SyncAll
    \/ SyncACTransit
    \/ AdminAnswer

SpecAdmin == AdminInit /\ [][AdminNext]_vars

\* Properties of the admin endpoints.

AdminAnswered == adminCall # Idle /\ adminResponse # Idle

AdminTypeOk ==
    adminCall # Idle =>
        /\ adminCall.pc \in SyncPcs \cup {"auth", "syncAll", "return", "done"}
        /\ adminResponse # Idle => adminResponse.status \in {200, 401, 500}

\* The requests the admin endpoints must refuse: no Authorization header,
\* one that does not start with "Bearer ", or one whose token is not
\* ADMIN_SYNC_TOKEN.
AdminHeaderMissing == adminCall.authHeader = Undefined

AdminNotBearer ==
    /\ adminCall.authHeader # Undefined
    /\ ~StartsWith(adminCall.authHeader, BearerPrefix)

AdminWrongToken ==
    /\ adminCall.authHeader # Undefined
    /\ StartsWith(adminCall.authHeader, BearerPrefix)
    /\ SubSeq(adminCall.authHeader, Len(BearerPrefix) + 1, Len(adminCall.authHeader))
          # adminCall.adminSyncToken

AdminUnauthorized ==
    adminCall # Idle /\ (AdminHeaderMissing \/ AdminNotBearer \/ AdminWrongToken)

\* C30: an admin sync or import request whose Authorization header is
\* missing, does not start with "Bearer ", or carries a token other than
\* ADMIN_SYNC_TOKEN is answered with 401, and no step of its handler writes
\* to the database or calls the upstream.
C30_UnauthorizedRefused ==
    [][AdminUnauthorized =>
          /\ db' = db
          /\ ~adminCall'.fetched
          /\ adminCall'.pc \in {"auth", "done"}
          /\ adminResponse' # Idle => adminResponse'.status = 401]_vars

\* Each of the three cases was answered, for either endpoint.
C30_Witness ==
    /\ AdminAnswered /\ AdminWrongToken
    /\ adminCall.endpoint = "sync"
    /\ adminCall.adminSyncToken # Undefined
    /\ adminResponse.status = 401 /\ adminResponse.error = "Invalid token"
    /\ db = CacheOf(StalePayload)

AdminMissingRefused ==
    /\ AdminAnswered /\ AdminHeaderMissing /\ adminCall.endpoint = "import"
    /\ adminResponse.status = 401

AdminLowerCasePrefixRefused ==
    /\ AdminAnswered /\ AdminNotBearer
    /\ adminCall.authHeader = ToLowerCase(BearerPrefix) \o <<"k">>
    /\ adminResponse.error = "Unauthorized - Bearer token required"

\* An authorized sync does write and fetch.
AdminAuthorizedWrote ==
    /\ AdminAnswered /\ ~AdminUnauthorized
    /\ adminCall.fetched /\ db # adminCall.before

\* A sync of the bus agency alone has returned to its caller.
SyncCompleted ==
    /\ AdminAnswered
    /\ adminCall.endpoint = "sync" /\ ~adminCall.fromAll
    /\ adminResponse.status = 200

SyncWithoutError ==
    /\ SyncCompleted
    /\ \A i \in 1..Len(adminResponse.results) : adminResponse.results[i].error = ""

\* The records of the upstream catalog: its routes, and the stops and
\* directions of route NL's payload.
CatalogRouteCodes ==
    { adminCall.response.data[i].RouteId : i \in 1..Len(adminCall.response.data) }

CatalogStopCodes ==
    UNION { { NumberToString(adminCall.response.routeStops[k].Stops[j].StopId) :
                j \in 1..Len(adminCall.response.routeStops[k].Stops) } :
            k \in 1..Len(adminCall.response.routeStops) }

CatalogDirectionCodes ==
    { adminCall.response.routeStops[k].Direction :
        k \in 1..Len(adminCall.response.routeStops) }

\* The rows of the bus agency that stand for a record of the catalog.
CatalogRouteRows ==
    { r \in db.routes : r.agency = "actransit" /\ r.code \in CatalogRouteCodes }

CatalogStopRows ==
    { s \in db.stops : s.agency = "actransit" /\ s.code \in CatalogStopCodes }

CatalogDirectionRows ==
    { x \in db.directions :
        x.route = <<"actransit", "NL">> /\ x.code \in CatalogDirectionCodes }

CatalogLinkRows ==
    { sr \in db.stopRoutes :
        /\ sr.route = <<"actransit", "NL">>
        /\ sr.stop[1] = "actransit" /\ sr.stop[2] \in CatalogStopCodes }

\* C25: after a full-catalog sync of the bus agency that completed without
\* error, every route, stop, direction and stop-route link of the upstream
\* catalog is active in the database.
C25_SyncActivatesCatalog ==
    SyncWithoutError =>
        /\ \A r \in CatalogRouteRows : r.active
        /\ \A s \in CatalogStopRows : s.active
        /\ \A x \in CatalogDirectionRows : x.active
        /\ \A sr \in CatalogLinkRows : sr.active

\* The part of C25 about routes: each route of the catalog has an active
\* row, and the rows of routes the catalog lacks are inactive.
SyncActivatesCatalogRoutes ==
    SyncWithoutError =>
        /\ \A code \in CatalogRouteCodes : \E r \in CatalogRouteRows : r.active
        /\ \A r \in db.routes :
              r.agency = "actransit" /\ r.code \notin CatalogRouteCodes => ~r.active

\* The sync never sets a stop, a direction or a link active.
SyncLeavesRestInactive ==
    SyncCompleted =>
        /\ \A s \in db.stops : s.agency = "actransit" => ~s.active
        /\ \A x \in db.directions : x.route[1] = "actransit" => ~x.active
        /\ \A sr \in db.stopRoutes : sr.route[1] = "actransit" => ~sr.active

\* A sync without error ended with stops of the catalog inactive.
SyncLeftCatalogStopsInactive ==
    /\ SyncWithoutError
    /\ CatalogStopRows # {}
    /\ \A s \in CatalogStopRows : ~s.active
    /\ \A r \in CatalogRouteRows : r.active

\* The fetch of the catalog failed during a sync that has ended.
SyncFetchFailed ==
    /\ AdminAnswered
    /\ adminCall.endpoint = "sync"
    /\ adminCall.fetched /\ RoutesFetchFailed(adminCall.response)

\* C26: when the fetch of the upstream catalog fails during a sync, the
\* records that were active before the sync are active after it.
C26_FetchFailureKeepsActive ==
    SyncFetchFailed =>
        /\ \A r \in adminCall.before.routes :
              r.active => \E x \in db.routes :
                              x.agency = r.agency /\ x.code = r.code /\ x.active
        /\ \A s \in adminCall.before.stops :
              s.active => \E x \in db.stops :
                              x.agency = s.agency /\ x.code = s.code /\ x.active
        /\ \A dr \in adminCall.before.directions :
              dr.active => \E x \in db.directions : x.id = dr.id /\ x.active
        /\ \A sr \in adminCall.before.stopRoutes :
              sr.active => \E x \in db.stopRoutes :
                              /\ x.stop = sr.stop /\ x.route = sr.route
                              /\ x.direction = sr.direction /\ x.active

\* What the code does then: the sync returns 200 with the error count in
\* its result, and no row of the bus agency is active.
FetchFailureDeactivatesAll ==
    SyncFetchFailed =>
        /\ adminResponse.status = 200 /\ adminResponse.success
        /\ \E i \in 1..Len(adminResponse.results) :
              adminResponse.results[i].error = "Import completed with 1 errors"
        /\ \A r \in db.routes : r.agency = "actransit" => ~r.active
        /\ \A s \in db.stops : s.agency = "actransit" => ~s.active

\* A sync whose fetch failed ended with rows inactive that were active.
SyncFetchFailedDeactivated ==
    /\ SyncFetchFailed
    /\ \E r \in adminCall.before.routes : r.active
    /\ \E s \in adminCall.before.stops : s.active
    /\ \A r \in db.routes : ~r.active

(***************************************************************************)
(* Stops requests while a cache write or a sync is running                 *)
(***************************************************************************)
\* The syncs that run beside the two stops requests: authorized, for the
\* bus agency, with a catalog of route NL or a failing upstream.
SyncBesideStopsCallSet ==
    { c \in AdminCallSet :
        /\ c.endpoint = "sync"
        /\ AdminAuthorize(c.authHeader, c.adminSyncToken) = Idle
        /\ c.agency = <<"a", "c", "t", "r", "a", "n", "s", "i", "t">>
        /\ c.response.routeStops = NoRouteStops
        /\ \/ c.response.kind = "http" /\ c.response.status = 500
           \/ /\ c.response.valid /\ Len(c.response.data) = 1
              /\ c.response.data[1].RouteId = "NL" }

\* The stops requests that run beside the sync: for route NL of the bus
\* agency, with an upstream that answers one direction record of two stops
\* with two names.
StopsBesideSyncCallSet ==
    { c \in StopsPairCallSet :
        /\ c.agency = "actransit" /\ c.route = "NL"
        /\ c.response.kind = "http" /\ ResponseOk(c.response)
        /\ Len(c.response.data) = 1
        /\ c.response.data[1].Direction = "To SF"
        /\ Len(c.response.data[1].Stops) = 2
        /\ c.response.data[1].Stops[1].Name # c.response.data[1].Stops[2].Name }

StopsSyncInit ==
    /\ stopsCall \in StopsBesideSyncCallSet
    /\ peerCall = stopsCall
    /\ db \in {SeedDb, CacheOf(StalePayload)}
    /\ adminCall \in SyncBesideStopsCallSet
    /\ adminResponse = Idle
    /\ stopsResponse = Idle
    /\ peerResponse = Idle
    /\ cacheTasks = <<>>
    /\ predCache = Idle
    /\ busCall = Idle /\ busResult = Idle
    /\ railCall = Idle /\ railResult = Idle
    /\ dirCall = Idle /\ dirResponse = Idle
    /\ predCall = Idle /\ predResponse = Idle
    /\ routesCall = Idle /\ routesResponse = Idle
    /\ routeStopsCall = Idle /\ routeStopsResponse = Idle

StopsSyncNext ==
    \/ StopsPairNext
    \/ AdminBegin
    \/ SyncACTransit
    \/ AdminAnswer

SpecStopsSync == StopsSyncInit /\ [][StopsSyncNext]_vars

\* The stop names of a payload of /route/{route}/stops.
PayloadNames(data) ==
    UNION { { data[k].Stops[j].Name : j \in 1..Len(data[k].Stops) } :
            k \in 1..Len(data) }

\* The second request is answered from the cache after the first was
\* answered from the payload, which is then the most recent one.
CacheAnswerAfterFetch ==
    /\ stopsResponse # Idle /\ stopsResponse.servedFrom = "upstream"
    /\ peerResponse = Idle /\ peerResponse' # Idle
    /\ peerResponse'.servedFrom = "cache"

\* C27: a stops response served from the cache has every stop name of the
\* route's most recent upstream payload, also when a cache write or a sync
\* is still running.
C27_CacheHasLatestNames ==
    [][CacheAnswerAfterFetch =>
          PayloadNames(stopsCall.response.data) \subseteq NamesOf(peerResponse'.stops)]_vars

\* Once no write and no sync is running and none has run beside the
\* write, the cache has every name (CacheHasSameNames); a request that
\* reads during the write misses the names not yet written.
CacheAnswerDuringWrite ==
    /\ BothAnswered
    /\ adminCall.pc = "auth"
    /\ stopsResponse.servedFrom = "upstream"
    /\ peerResponse.servedFrom = "cache"
    /\ ~(PayloadNames(stopsCall.response.data) \subseteq NamesOf(peerResponse.stops))

\* The sync set the stops inactive between two upserts of the write:
\* after both have ended the cache holds the later stop alone, and the
\* next request is answered from it.
CacheCutBySync ==
    /\ BothAnswered
    /\ adminResponse # Idle
    /\ \A i \in 1..Len(cacheTasks) : cacheTasks[i].pc = "done"
    /\ Len(cacheTasks) = 1
    /\ stopsResponse.servedFrom = "upstream"
    /\ peerResponse.servedFrom = "cache"
    /\ ~(PayloadNames(stopsCall.response.data) \subseteq NamesOf(peerResponse.stops))
    /\ \A l \in StopsFromCacheNow : l = peerResponse.stops

=============================================================================
